---------------------------- MODULE Spec2Model ----------------------------
(***************************************************************************)
(* Randomized algorithms (CH-6, CH-7):                                     *)
(*   - Freivalds' matrix-product verifier  (freivalds_technique.cpp)       *)
(*   - Bipartite perfect matching through a randomized Edmonds matrix and   *)
(*     a determinant modulo p             (perfect_bipartite.cpp)         *)
(*   - Karp-Rabin pattern matching, Las Vegas variant, against the naive   *)
(*     matcher            (las_vegas.cpp, naive_pattern_macthing.cpp)      *)
(*   - Directed s-t connectivity by repeated random walks  (STCON.cpp)     *)
(*   - Randomized 2-SAT by literal flipping                 (2SAT.cpp)     *)
(*                                                                         *)
(* Matrices are sequences of rows, rows are sequences of integers.  The    *)
(* C++ code indexes from 0, the model from 1: row/column i of the code is  *)
(* row/column i+1 here, and the code's "pivot == n" is "pivot = n+1".      *)
(***************************************************************************)
EXTENDS Integers, Sequences, FiniteSets, TLC

VARIABLES
    \* --- freivalds_technique.cpp ---
    A, B, C,        \* the three matrices handed to freivaldsVerify
    pendingC,       \* the matrices main verifies after C, in order: C_incorrect
                    \* while C is C_correct, none once C is C_incorrect
    r,              \* the vector r drawn by the latest call (<<>>: none drawn)
    result,         \* the value the latest call returned
    calls,          \* number of calls of freivaldsVerify made so far
    iter,           \* main's loop counter i
    overallResult,  \* main's overallResult
    trials,         \* the values returned to the loop, in order
    fpc,            \* position in main: "single" (lines 92-97, before the
                    \* loop), "loop", "done", "crashed"
    reseeds,        \* how often a generator was constructed and seeded so far
    sameSeed,       \* the latest call read the same clock count, hence used the
                    \* same seed, as the call before it
    \* --- perfect_bipartite.cpp ---
    graph,          \* the adjacency matrix handed to hasPerfectMatching
    A_prime,        \* the matrix A' being built / eliminated in place
    sampled,        \* A' as it was built, before the elimination changed it
    det,            \* modularDeterminant's running determinant
    k,              \* modularDeterminant's pivot column (next to process)
    matchResult,    \* the value hasPerfectMatching returned
    mpc,            \* position: "call", "eliminate", "product", "test",
                    \*           "returned", "crashed"
    invArgs,        \* the arguments modInverse was called with in this call
    muls,           \* the multiplications (a * b) % p of the latest step
    sums,           \* the sums formed before a "% p" in the latest step
    pivots,         \* the value of pivot after the scan, for each pivot column
                    \* processed so far in this call, in order
    before,         \* the matrix A as the latest iteration over k found it
    \* --- perfect_bipartite.cpp: one call of power or modInverse ---
    argBase,        \* the argument base of power (n of modInverse)
    argExp,         \* the argument exp of power
    pres,           \* power's local res
    pbase,          \* power's local base, after "base %= p"
    pexp,           \* power's local exp
    psteps,         \* iterations of power's while loop made so far
    ppc,            \* position: "inverse", "call", "loop", "returned"
    \* --- las_vegas.cpp: one call of karpRabinLasVegas ---
    text,           \* the text, a sequence of bytes 0..255
    pattern,        \* the pattern, a sequence of bytes 0..255
    charSigned,     \* whether the build's plain char is a signed type
    patternHash,    \* the local patternHash
    textHash,       \* the local textHash (hash of the current window)
    hpow,           \* the local h = d^(m-1) % p
    shift,          \* the slide loop's counter j
    matches,        \* the vector matches
    spurious,       \* windows so far whose hash matched but whose text did not
    kpc,            \* position: "call", "slide", "returned"
    \* --- STCON.cpp: one call of solveSTCON ---
    adj,            \* the adjacency list: adj[u] is the sequence of u's
                    \* neighbours, for the vertices u = 0 .. n-1
    src,            \* the parameter s
    tgt,            \* the parameter t
    walkLimit,      \* the local walkLimit
    quitCoinFlips,  \* the local quitCoinFlips
    current_v,      \* the walk's current vertex
    step,           \* the walk loop's counter
    flips,          \* the quit loop's counter i
    stconResult,    \* the value solveSTCON returned
    spc,            \* position: "call", "round", "walk", "quit", "returned"
    \* --- 2SAT.cpp: one call of solve2SAT ---
    clauses,        \* the formula: a sequence of clauses <<lit1, lit2>>
    nvars,          \* the parameter n, the number of variables
    assignment,     \* the local assignment; assignment[i] of the code is
                    \* assignment[i + 1] here
    timeout,        \* the local timeout
    kstep,          \* the loop counter k
    satFound,       \* .first of the returned pair
    satAssignment,  \* .second of the returned pair
    tpc             \* position: "call", "loop", "returned"

fvars == <<A, B, C, pendingC, r, result, calls, iter, overallResult, trials,
           fpc, reseeds, sameSeed>>
mvars == <<graph, A_prime, sampled, det, k, matchResult, mpc,
           invArgs, muls, sums, pivots, before>>
pvars == <<argBase, argExp, pres, pbase, pexp, psteps, ppc>>
kvars == <<text, pattern, charSigned, patternHash, textHash, hpow, shift,
           matches, spurious, kpc>>
svars == <<adj, src, tgt, walkLimit, quitCoinFlips, current_v, step, flips,
           stconResult, spc>>
tvars == <<clauses, nvars, assignment, timeout, kstep, satFound,
           satAssignment, tpc>>
vars == <<fvars, mvars, pvars, kvars, svars, tvars>>

\* What the actions of one program leave alone: the other programs.
notFreivalds == <<mvars, pvars, kvars, svars, tvars>>
notMatching == <<fvars, pvars, kvars, svars, tvars>>
notPower == <<fvars, mvars, kvars, svars, tvars>>
notKarpRabin == <<fvars, mvars, pvars, svars, tvars>>
notSTCON == <<fvars, mvars, pvars, kvars, tvars>>
not2SAT == <<fvars, mvars, pvars, kvars, svars>>

(***************************************************************************)
(* Part 1.  Arithmetic modulo p  (perfect_bipartite.cpp, lines 21-50)      *)
(***************************************************************************)

\* const ll p = 1000000007;
p == 1000000007

Abs(x) == IF x < 0 THEN -x ELSE x

\* The C++ remainder a % p of a long long: it takes the sign of a.
CRem(a) == IF a >= 0 THEN a % p ELSE -((-a) % p)

\* x * 31623 mod p for 0 <= x < p.  31623^2 = p + 14122, so with
\* x = q * 31623 + t the product is q * 14122 + t * 31623 (mod p), and both
\* terms stay far below 2^31.
TimesRadix(x) == ((x \div 31623) * 14122 + (x % 31623) * 31623) % p

\* |a| * |b| mod p for 0 <= a, b < p.  The code forms the 64-bit product and
\* reduces it; that product does not fit the model checker's 32-bit
\* integers, so the same value is computed on the radix-31623 digits of a
\* and b, every intermediate value staying below 2^31.
MulAbs(a, b) ==
    LET a1 == a \div 31623
        a0 == a % 31623
        b1 == b \div 31623
        b0 == b % 31623
        hi == TimesRadix(TimesRadix(a1 * b1))
        mid == TimesRadix((a1 * b0 + a0 * b1) % p)
    IN  (((hi + mid) % p) + a0 * b0) % p

\* (a * b) % p as C++ evaluates it on long long operands with |a|, |b| < p:
\* the result has the sign of the product.
MulModP(a, b) ==
    LET m == MulAbs(Abs(a), Abs(b))
    IN  IF (a < 0) # (b < 0) THEN -m ELSE m

\* The subtraction without the "+ p": (a - t) % p is negative for a < t.
SubModPNoAddP(a, t) == CRem(a - t)

\* (a - t + p) % p as C++ evaluates it, for |a|, |t| < p ("add p to handle
\* negatives").  For a - t >= 0 adding p does not change the remainder.
SubModP(a, t) ==
    LET d == a - t
    IN  IF d >= 0 THEN d % p ELSE CRem(d + p)

\* The loop body with the two statements exchanged: base is squared before
\* it is multiplied into res.
powerIterSquareFirst(res, base, exp) ==
    LET b2 == MulModP(base, base)
    IN  [res |-> IF exp % 2 = 1 THEN MulModP(res, b2) ELSE res,
         base |-> b2,
         exp |-> exp \div 2]

\* One iteration of power's while loop (lines 36-38):
\*   if (exp % 2 == 1) res = (res * base) % p;
\*   base = (base * base) % p;  exp /= 2;
powerIter(res, base, exp) ==
    [res |-> IF exp % 2 = 1 THEN MulModP(res, base) ELSE res,
     base |-> MulModP(base, base),
     exp |-> exp \div 2]

\* The while loop of power: res after the remaining bits of exp.
RECURSIVE powerLoop(_, _, _)
powerLoop(res, base, exp) ==
    IF exp > 0
    THEN LET s == powerIter(res, base, exp)
         IN  \* the comparison makes TLC evaluate the new res and base here,
             \* as the loop body does, before the next iteration
             IF s.res = s.res /\ s.base = s.base
             THEN powerLoop(s.res, s.base, s.exp)
             ELSE res
    ELSE res

\* ll power(ll base, ll exp)
power(base, exp) == powerLoop(1, CRem(base), exp)

\* A wrong exponent in the Fermat inverse.
modInverseWrongExponent(n) == power(n, p - 1)

\* ll modInverse(ll n) { return power(n, p - 2); }
modInverse(n) == power(n, p - 2)

(***************************************************************************)
(* Part 2.  Freivalds' technique  (freivalds_technique.cpp)                *)
(***************************************************************************)

\* int k = 10;  the number of trials of main's loop
K == 10

\* Matrix = std::vector<std::vector<int>>: entries are 32-bit ints, from
\* Int32Min = -2^31 to Int32Max = 2^31 - 1.
Int32Max == 2147483647
Int32Min == (-Int32Max) - 1

\* Whether a * b and a + b stay inside the int range.  Signed overflow is
\* undefined behaviour.  The tests divide instead of multiplying, and never
\* negate Int32Min.
MulFits(a, b) ==
    CASE a = 0 \/ b = 0 -> TRUE
      [] a > 0 /\ b > 0 -> a <= Int32Max \div b
      [] a < 0 /\ b < 0 ->
           a # Int32Min /\ b # Int32Min /\ (-a) <= Int32Max \div (-b)
      [] a < 0 /\ b > 0 -> a >= (Int32Min + b - 1) \div b
      [] a > 0 /\ b < 0 -> b >= (Int32Min + a - 1) \div a
AddFits(a, b) == IF b >= 0 THEN a <= Int32Max - b ELSE a >= Int32Min - b

\* result[i] after the first j steps "result[i] += M[i][j] * r[j]" on one row.
RECURSIVE rowDot(_, _, _)
rowDot(row, v, j) ==
    IF j = 0 THEN 0 ELSE rowDot(row, v, j - 1) + row[j] * v[j]

\* No product and no partial sum of those j steps overflows.
RECURSIVE rowDotFits(_, _, _)
rowDotFits(row, v, j) ==
    IF j = 0 THEN TRUE
    ELSE /\ rowDotFits(row, v, j - 1)
         /\ MulFits(row[j], v[j])
         /\ AddFits(rowDot(row, v, j - 1), row[j] * v[j])

\* The inner loop one column short (j < n - 1).
matrixVectorMultiplyDropLast(M, v) ==
    [i \in 1..Len(M) |-> rowDot(M[i], v, Len(M) - 1)]

\* Vector matrixVectorMultiply(const Matrix& M, const Vector& r): n is the
\* number of rows, and only the first n entries of each row are read.
matrixVectorMultiply(M, v) ==
    [i \in 1..Len(M) |-> rowDot(M[i], v, Len(M))]

matrixVectorFits(M, v) ==
    \A i \in 1..Len(M) : rowDotFits(M[i], v, Len(M))

\* The guard without its test of n == 0: the empty matrices pass it.
InvalidDimensionsEmptyAccepted(X, Y, Z) ==
    LET n == Len(X)
    IN  /\ n # 0
        /\ \/ Len(X[1]) # n
           \/ Len(Y) # n
           \/ Len(Y[1]) # n
           \/ Len(Z) # n
           \/ Len(Z[1]) # n

\* The guard of freivaldsVerify, evaluated left to right as || does: only
\* the row counts and the length of row 0 of each matrix are looked at.
InvalidDimensions(X, Y, Z) ==
    LET n == Len(X)
    IN  \/ n = 0
        \/ Len(X[1]) # n
        \/ Len(Y) # n
        \/ Len(Y[1]) # n
        \/ Len(Z) # n
        \/ Len(Z[1]) # n

\* Past the guard, M[i][j] is read for all i, j < n: a row shorter than n is
\* read out of bounds.
ReadsOutOfBounds(X, Y, Z) ==
    LET n == Len(X)
    IN  \E i \in 1..n : Len(X[i]) < n \/ Len(Y[i]) < n \/ Len(Z[i]) < n

\* An int overflow in one of the three products B*r, A*(B*r), C*r.
Overflows(X, Y, Z, rv) ==
    \/ ~matrixVectorFits(Y, rv)
    \/ ~matrixVectorFits(X, matrixVectorMultiply(Y, rv))
    \/ ~matrixVectorFits(Z, rv)

UndefinedBehaviour(X, Y, Z, rv) ==
    /\ ~InvalidDimensions(X, Y, Z)
    /\ ReadsOutOfBounds(X, Y, Z) \/ Overflows(X, Y, Z, rv)

\* The comparison of A(Br) and Cr stopping after the first entry.
freivaldsVerifyFirstEntry(X, Y, Z, rv) ==
    IF InvalidDimensions(X, Y, Z) THEN FALSE
    ELSE matrixVectorMultiply(X, matrixVectorMultiply(Y, rv))[1]
             = matrixVectorMultiply(Z, rv)[1]

\* bool freivaldsVerify(A, B, C) with the vector r it drew: the value it
\* returns when its behaviour is defined.
freivaldsVerify(X, Y, Z, rv) ==
    IF InvalidDimensions(X, Y, Z) THEN FALSE
    ELSE matrixVectorMultiply(X, matrixVectorMultiply(Y, rv))
             = matrixVectorMultiply(Z, rv)

Returned(b) == [kind |-> "return", value |-> b]
Crashed == [kind |-> "crash", value |-> FALSE]

\* What one call can do for the caller.  Undefined behaviour may return
\* either value or end the process.
Outcomes(X, Y, Z, rv) ==
    IF UndefinedBehaviour(X, Y, Z, rv)
    THEN {Returned(TRUE), Returned(FALSE), Crashed}
    ELSE {Returned(freivaldsVerify(X, Y, Z, rv))}

\* The vectors r the call can draw: entries uniform in {0, 1}; none is drawn
\* when the guard returns first.
RVectors(X, Y, Z) ==
    IF InvalidDimensions(X, Y, Z) THEN {<<>>} ELSE [1..Len(X) -> {0, 1}]

\* Lines 46-53: every call that passes the guard constructs a new mt19937
\* from seed = system_clock::now().time_since_epoch().count() and fills r
\* from it; r is a function of the seed.  The clock's resolution is the
\* implementation's: a call may read the count the call before it read
\* (same), and then it draws that call's r (prev) again.  seeded: a
\* generator was constructed.
Draws(X, Y, Z, prev, seededBefore) ==
    IF InvalidDimensions(X, Y, Z)
    THEN {[seeded |-> FALSE, same |-> FALSE, rv |-> <<>>]}
    ELSE {[seeded |-> TRUE, same |-> FALSE, rv |-> v] : v \in RVectors(X, Y, Z)}
           \cup (IF seededBefore
                 THEN {[seeded |-> TRUE, same |-> TRUE, rv |-> prev]}
                 ELSE {})

(***************************************************************************)
(* Inputs of the Freivalds program.                                        *)
(***************************************************************************)

\* Largest matrix dimension of the generated input families.
MaxN == 2
\* Largest number of entries in which a generated C differs from A*B.
MaxDiff == 2

\* 1, 2, ..., n*n row by row: main's A for n = 3.
Count(n) == [i \in 1..n |-> [j \in 1..n |-> (i - 1) * n + j]]
\* n*n, ..., 2, 1 row by row: main's B for n = 3.
RevCount(n) == [i \in 1..n |-> [j \in 1..n |-> n * n + 1 - ((i - 1) * n + j)]]
Identity(n) == [i \in 1..n |-> [j \in 1..n |-> IF i = j THEN 1 ELSE 0]]
\* +1 / -1 in a checkerboard.
Alternating(n) == [i \in 1..n |-> [j \in 1..n |-> IF (i + j) % 2 = 0 THEN 1 ELSE -1]]

\* The exact product and sum of two n x n matrices of small entries.
RECURSIVE DotTo(_, _, _, _, _)
DotTo(X, Y, i, j, m) ==
    IF m = 0 THEN 0 ELSE DotTo(X, Y, i, j, m - 1) + X[i][m] * Y[m][j]
MatMul(X, Y) ==
    [i \in 1..Len(X) |-> [j \in 1..Len(X) |-> DotTo(X, Y, i, j, Len(X))]]
MatAdd(X, Y) ==
    [i \in 1..Len(X) |-> [j \in 1..Len(X) |-> X[i][j] + Y[i][j]]]

\* Whether every product and partial sum of the exact product fits an int.
RECURSIVE DotFitsTo(_, _, _, _, _)
DotFitsTo(X, Y, i, j, m) ==
    IF m = 0 THEN TRUE
    ELSE /\ DotFitsTo(X, Y, i, j, m - 1)
         /\ MulFits(X[i][m], Y[m][j])
         /\ AddFits(DotTo(X, Y, i, j, m - 1), X[i][m] * Y[m][j])
ProductFits(X, Y) ==
    \A i \in 1..Len(X) : \A j \in 1..Len(X) : DotFitsTo(X, Y, i, j, Len(X))

\* The differences C - A*B of the generated inputs: entries -1, 0, 1, at most
\* MaxDiff of them nonzero and all of these in one row (where they can cancel
\* in (C - A*B) r); the zero matrix gives C = A*B.
Deltas(n) ==
    {[i \in 1..n |-> IF i = row THEN d ELSE [j \in 1..n |-> 0]] :
        row \in 1..n,
        d \in {e \in [1..n -> {-1, 0, 1}] :
                 Cardinality({j \in 1..n : e[j] # 0}) <= MaxDiff}}

WellFormedInputs ==
    UNION {
      {[A |-> a, B |-> b, C |-> MatAdd(MatMul(a, b), d)] :
          a \in {Count(n), Alternating(n)},
          b \in {RevCount(n), Identity(n)},
          d \in Deltas(n)}
      : n \in 1..MaxN}

\* main's matrices (lines 84-90).
MainA == <<<<1, 2, 3>>, <<4, 5, 6>>, <<7, 8, 9>>>>
MainB == <<<<9, 8, 7>>, <<6, 5, 4>>, <<3, 2, 1>>>>
C_correct == <<<<30, 24, 18>>, <<84, 69, 54>>, <<138, 114, 90>>>>
C_incorrect == <<<<30, 24, 18>>, <<84, 69, 54>>, <<138, 114, 91>>>>

MainInputs ==
    {[A |-> MainA, B |-> MainB, C |-> C_correct],
     [A |-> MainA, B |-> MainB, C |-> C_incorrect]}

\* Entries large enough for int arithmetic to overflow:
\*   1 x 1: 65536 * 65536 = 2^32 is no int at all;
\*   2 x 2: A*B = C has entries 2^30, and 2^30 + 2^30 overflows for r = (1,1).
LargeInputs ==
    {[A |-> <<<<65536>>>>, B |-> <<<<65536>>>>, C |-> <<<<0>>>>],
     [A |-> <<<<32768, 0>>, <<0, 0>>>>,
      B |-> <<<<32768, 32768>>, <<0, 0>>>>,
      C |-> <<<<1073741824, 1073741824>>, <<0, 0>>>>]}

\* Ways to spoil the shape of an n x n matrix.
Damages ==
    {"empty", "dropRow", "addRow", "shortRow0", "longRow0",
     "shortRowLast", "longRowLast", "grow", "shrink"}

Damage(M, d) ==
    LET n == Len(M)
    IN  CASE d = "empty" -> <<>>
          [] d = "dropRow" -> SubSeq(M, 1, n - 1)
          [] d = "addRow" -> Append(M, M[n])
          [] d = "shortRow0" -> [M EXCEPT ![1] = SubSeq(@, 1, n - 1)]
          [] d = "longRow0" -> [M EXCEPT ![1] = Append(@, 1)]
          [] d = "shortRowLast" -> [M EXCEPT ![n] = SubSeq(@, 1, n - 1)]
          [] d = "longRowLast" -> [M EXCEPT ![n] = Append(@, 1)]
          [] d = "grow" -> Count(n + 1)
          [] d = "shrink" -> Count(n - 1)

DamagedInputs ==
    UNION {
      LET a == Count(n)
          b == RevCount(n)
          c == MatMul(a, b)
      IN  {[A |-> IF w \in {"A", "all"} THEN Damage(a, d) ELSE a,
            B |-> IF w \in {"B", "all"} THEN Damage(b, d) ELSE b,
            C |-> IF w \in {"C", "all"} THEN Damage(c, d) ELSE c] :
              w \in {"A", "B", "C", "all"}, d \in Damages}
      : n \in 1..MaxN}

FreivaldsInputs ==
    WellFormedInputs \cup MainInputs \cup LargeInputs \cup DamagedInputs

\* The matrix main verifies first (line 93): the correct product of A and B,
\* as C_correct is for main's A and B; for the large and the damaged inputs,
\* whose product is no int matrix, the input's C itself.
FirstCandidate(inp) ==
    IF inp \in WellFormedInputs \cup MainInputs
    THEN MatMul(inp.A, inp.B)
    ELSE inp.C

(***************************************************************************)
(* The Freivalds program as a state machine: main makes single calls of    *)
(* freivaldsVerify and then runs the K-trial loop (lines 92-111).          *)
(***************************************************************************)

FreivaldsInit ==
    /\ \E inp \in FreivaldsInputs :
         /\ A = inp.A /\ B = inp.B
         /\ C = FirstCandidate(inp)
         /\ pendingC = <<inp.C>>
    /\ r = <<>>
    /\ result = FALSE
    /\ calls = 0
    /\ iter = 0
    /\ overallResult = TRUE
    /\ trials = <<>>
    /\ fpc = "single"
    /\ reseeds = 0
    /\ sameSeed = FALSE

\* The program is not running.
FreivaldsIdle ==
    /\ A = <<>> /\ B = <<>> /\ C = <<>>
    /\ pendingC = <<>>
    /\ r = <<>>
    /\ result = FALSE
    /\ calls = 0
    /\ iter = 0
    /\ overallResult = TRUE
    /\ trials = <<>>
    /\ fpc = "idle"
    /\ reseeds = 0
    /\ sameSeed = FALSE

\* bool result1 = freivaldsVerify(A, B, C_correct);     (line 93)
\* bool result2 = freivaldsVerify(A, B, C_incorrect);   (line 97)
\* The first call is made on the first matrix, the second once C_incorrect
\* has taken its place; the loop follows the second.
SingleCall ==
    /\ fpc = "single"
    /\ calls = 0 \/ pendingC = <<>>
    /\ \E d \in Draws(A, B, C, r, reseeds > 0) : \E o \in Outcomes(A, B, C, d.rv) :
         /\ r' = d.rv
         /\ reseeds' = (IF d.seeded THEN reseeds + 1 ELSE reseeds)
         /\ sameSeed' = d.same
         /\ calls' = calls + 1
         /\ IF o.kind = "crash"
            THEN fpc' = "crashed" /\ UNCHANGED result
            ELSE /\ fpc' = (IF pendingC = <<>> THEN "loop" ELSE "single")
                 /\ result' = o.value
    /\ UNCHANGED <<A, B, C, pendingC, iter, overallResult, trials>>
    /\ UNCHANGED notFreivalds

\* Between the calls of lines 93 and 97: the next call is given C_incorrect.
NextCandidate ==
    /\ fpc = "single"
    /\ calls > 0
    /\ pendingC # <<>>
    /\ C' = Head(pendingC)
    /\ pendingC' = Tail(pendingC)
    /\ UNCHANGED <<A, B, r, result, calls, iter, overallResult, trials, fpc,
                   reseeds, sameSeed>>
    /\ UNCHANGED notFreivalds

\* The mutated loop body: the loop goes on after a failed trial.
AmplifyTrialNoBreak ==
    /\ fpc = "loop"
    /\ iter < K
    /\ \E d \in Draws(A, B, C, r, reseeds > 0) : \E o \in Outcomes(A, B, C, d.rv) :
         /\ r' = d.rv
         /\ reseeds' = (IF d.seeded THEN reseeds + 1 ELSE reseeds)
         /\ sameSeed' = d.same
         /\ calls' = calls + 1
         /\ IF o.kind = "crash"
            THEN fpc' = "crashed" /\ UNCHANGED <<result, iter, overallResult, trials>>
            ELSE /\ result' = o.value
                 /\ trials' = Append(trials, o.value)
                 /\ overallResult' = (overallResult /\ o.value)
                 /\ iter' = iter + 1
                 /\ fpc' = fpc
    /\ UNCHANGED <<A, B, C, pendingC>>
    /\ UNCHANGED notFreivalds

\* One iteration of  for (i = 0; i < k; ++i)
\*     if (!freivaldsVerify(A, B, C)) { overallResult = false; break; }
AmplifyTrial ==
    /\ fpc = "loop"
    /\ iter < K
    /\ \E d \in Draws(A, B, C, r, reseeds > 0) : \E o \in Outcomes(A, B, C, d.rv) :
         /\ r' = d.rv
         /\ reseeds' = (IF d.seeded THEN reseeds + 1 ELSE reseeds)
         /\ sameSeed' = d.same
         /\ calls' = calls + 1
         /\ IF o.kind = "crash"
            THEN fpc' = "crashed" /\ UNCHANGED <<result, iter, overallResult, trials>>
            ELSE /\ result' = o.value
                 /\ trials' = Append(trials, o.value)
                 /\ IF ~o.value
                    THEN overallResult' = FALSE /\ fpc' = "done" /\ iter' = iter
                    ELSE iter' = iter + 1 /\ UNCHANGED <<overallResult, fpc>>
    /\ UNCHANGED <<A, B, C, pendingC>>
    /\ UNCHANGED notFreivalds

\* The loop condition i < k fails: the loop ends with overallResult as it is.
AmplifyExit ==
    /\ fpc = "loop"
    /\ iter = K
    /\ fpc' = "done"
    /\ UNCHANGED <<A, B, C, pendingC, r, result, calls, iter, overallResult,
                   trials, reseeds, sameSeed>>
    /\ UNCHANGED notFreivalds

FreivaldsNext == SingleCall \/ NextCandidate \/ AmplifyTrial \/ AmplifyExit

(***************************************************************************)
(* Part 3.  Determinant modulo p and the matching test                     *)
(*          (perfect_bipartite.cpp, lines 58-133)                          *)
(***************************************************************************)

\* The pivot search left out: row k is taken whatever A[k][k] is.
findPivotNoSearch(M, c, pv) == pv

\* The scan that keeps the last row with a nonzero entry instead of stopping
\* at the first.
findPivotLast(M, c, pv) ==
    IF \E row \in pv..Len(M) : M[row][c] # 0
    THEN CHOOSE row \in pv..Len(M) :
            /\ M[row][c] # 0
            /\ \A r2 \in (row + 1)..Len(M) : M[r2][c] = 0
    ELSE Len(M) + 1

\* int pivot = k; while (pivot < n && A[pivot][k] == 0) pivot++;
\* The result Len(M) + 1 is the code's "pivot == n": no pivot in column c.
RECURSIVE findPivot(_, _, _)
findPivot(M, c, pv) ==
    IF pv <= Len(M) /\ M[pv][c] = 0 THEN findPivot(M, c, pv + 1) ELSE pv

\* std::swap(A[k], A[pivot]);
swapRows(M, c, pv) == [M EXCEPT ![c] = M[pv], ![pv] = M[c]]

\* The sign flip of a row exchange forgotten.
negateDetForgotten(d) == d

\* The sign flip written as det = (-det) % p, which is negative in C++.
negateDetPlain(d) == CRem(-d)

\* The sign flip written as an assignment of -1: det = p - 1.
negateDetConstant(d) == p - 1

\* det = (p - det) % p;
negateDet(d) == CRem(p - d)

\* The row update with the wrong sign: R_i + factor * R_k.
eliminateRowWrongSign(rowi, rowk, c, inv) ==
    LET factor == MulModP(rowi[c], inv)
    IN  [j \in 1..Len(rowi) |->
            IF j < c THEN rowi[j]
            ELSE (rowi[j] + MulModP(factor, rowk[j])) % p]

\* The row update starting one column late: for (j = k + 1; ...), which
\* leaves A[i][k] as it was.
eliminateRowFromNext(rowi, rowk, c, inv) ==
    LET factor == MulModP(rowi[c], inv)
    IN  [j \in 1..Len(rowi) |->
            IF j <= c THEN rowi[j]
            ELSE SubModP(rowi[j], MulModP(factor, rowk[j]))]

\* The body of "for (i = k + 1; ...)" on one row below the pivot row:
\*   factor = (A[i][k] * modInverse(A[k][k])) % p;
\*   for (j = k; j < n; ++j) A[i][j] = (A[i][j] - (factor * A[k][j]) % p + p) % p;
\* inv is modInverse(A[k][k]), which the code evaluates again for every row.
eliminateRow(rowi, rowk, c, inv) ==
    LET factor == MulModP(rowi[c], inv)
    IN  [j \in 1..Len(rowi) |->
            IF j < c THEN rowi[j]
            ELSE SubModP(rowi[j], MulModP(factor, rowk[j]))]

\* The multiplications "(a * b) % p" of that loop body on one row (lines 83
\* and 87), each with its operands and its result.
rowMuls(rowi, rowk, c, inv) ==
    LET factor == MulModP(rowi[c], inv)
    IN  {[a |-> rowi[c], b |-> inv, res |-> factor]}
          \cup {[a |-> factor, b |-> rowk[j], res |-> MulModP(factor, rowk[j])] :
                   j \in c..Len(rowi)}

\* The values "A[i][j] - term + p" of that loop body on one row (line 88),
\* before the "% p".
rowSums(rowi, rowk, c, inv) ==
    LET factor == MulModP(rowi[c], inv)
    IN  {rowi[j] - MulModP(factor, rowk[j]) + p : j \in c..Len(rowi)}

\* One iteration of the loop over the pivot column c (lines 62-91), from the
\* matrix M and the running determinant d.  singular: the early "return 0".
columnStep(M, d, c) ==
    LET pivot == findPivot(M, c, c)
    IN  IF pivot = Len(M) + 1
        THEN [singular |-> TRUE, A |-> M, det |-> d, pivot |-> pivot,
              invArgs |-> {}, muls |-> {}, sums |-> {}]
        ELSE LET sw == IF c # pivot THEN swapRows(M, c, pivot) ELSE M
                 inv == modInverse(sw[c][c])
                 below == (c + 1)..Len(M)
             IN  [singular |-> FALSE, pivot |-> pivot,
                  A |-> [row \in 1..Len(M) |->
                           IF row > c THEN eliminateRow(sw[row], sw[c], c, inv)
                           ELSE sw[row]],
                  det |-> IF c # pivot THEN negateDet(d) ELSE d,
                  invArgs |-> IF below = {} THEN {} ELSE {sw[c][c]},
                  muls |-> UNION {rowMuls(sw[row], sw[c], c, inv) : row \in below},
                  sums |-> (IF c # pivot THEN {p - d} ELSE {})
                             \cup UNION {rowSums(sw[row], sw[c], c, inv) : row \in below}]

\* for (i = 0; i < n; ++i) det = (det * A[i][i]) % p;   after m steps
RECURSIVE diagonalProduct(_, _, _)
diagonalProduct(M, d, m) ==
    IF m = 0 THEN d ELSE MulModP(diagonalProduct(M, d, m - 1), M[m][m])

\* The multiplications "(det * A[i][i]) % p" of that loop (line 95).
diagonalMuls(M, d) ==
    {[a |-> diagonalProduct(M, d, m - 1), b |-> M[m][m],
      res |-> diagonalProduct(M, d, m)] : m \in 1..Len(M)}

\* The tail of modularDeterminant: the diagonal product and
\* "return (det + p) % p".
finalDeterminant(M, d) == CRem(diagonalProduct(M, d, Len(M)) + p)

RECURSIVE eliminateFrom(_, _, _)
eliminateFrom(M, d, c) ==
    IF c > Len(M) THEN finalDeterminant(M, d)
    ELSE LET s == columnStep(M, d, c)
         IN  IF s.singular THEN 0 ELSE eliminateFrom(s.A, s.det, c + 1)

\* ll modularDeterminant(Matrix& A), for a square matrix with |entries| < p.
modularDeterminant(M) == eliminateFrom(M, 1, 1)

(***************************************************************************)
(* Inputs of the matching program.                                         *)
(***************************************************************************)

\* Largest number of edges of the generated square graphs (the complete
\* graphs come on top).
MaxEdges == 3

\* The sampler drawing from [0, p-1] instead: distribution(0, p - 1).
SampleValuesWithZero == {0, 1, 2, p - 1}

\* The values the sampler may return, out of [1, p-1]: both ends of the
\* range and one value in between.
SampleValues == {1, 2, p - 1}

\* At most this many of the samples of one call differ from 1.
MaxVaried == 2

EdgeCount(g) ==
    Cardinality({ij \in (1..Len(g)) \X (1..Len(g)) : g[ij[1]][ij[2]] = 1})

Complete(n) == [row \in 1..n |-> [j \in 1..n |-> 1]]

SquareGraphs ==
    UNION {
      {g \in [1..n -> [1..n -> {0, 1}]] : EdgeCount(g) <= MaxEdges}
          \cup {Complete(n)}
      : n \in 0..MaxN}

\* Row 0 and column 0 full, nothing else: for n >= 3 the rows 1..n-1 all
\* reach column 0 only, so Hall's condition fails, and the determinant is 0
\* only because the elimination cancels exactly.
Star(n) == [row \in 1..n |-> [j \in 1..n |-> IF row = 1 \/ j = 1 THEN 1 ELSE 0]]

\* The cyclic shift: row i is joined to column i + 1, the last row to
\* column 0.  For n = 3 the elimination exchanges rows twice.
Shift(n) == [row \in 1..n |-> [j \in 1..n |-> IF j = (row % n) + 1 THEN 1 ELSE 0]]

\* main's graphs (lines 139-155).
graph1 == <<<<1, 1, 0>>, <<0, 0, 1>>, <<0, 1, 1>>>>
graph2 == <<<<0, 1, 0>>, <<0, 1, 0>>, <<1, 0, 1>>>>

\* rows x cols adjacency matrices with cols # rows (an edge where row index
\* and column index agree), and ragged ones whose row number t has length t.
NonSquareGraphs ==
    {[row \in 1..rows |-> [j \in 1..cols |-> IF row = j THEN 1 ELSE 0]] :
        rows \in 1..MaxN, cols \in 1..(MaxN + 1)}
    \cup {[row \in 1..rows |-> [j \in 1..row |-> 1]] : rows \in 1..MaxN}

IsSquare(g) == \A row \in 1..Len(g) : Len(g[row]) = Len(g)

MatchingInputs ==
    SquareGraphs \cup {graph1, graph2} \cup {Star(MaxN + 1), Shift(MaxN + 1)}
        \cup {g \in NonSquareGraphs : ~IsSquare(g)}

\* graph[i][j] is read for all i, j < n = graph.size(): a row shorter than n
\* is read out of bounds.
GraphReadOutOfBounds(g) == \E row \in 1..Len(g) : Len(g[row]) < Len(g)

Edges(g) ==
    {ij \in (1..Len(g)) \X (1..Len(g)) : g[ij[1]][ij[2]] = 1}

\* The matrices A' the construction loop (lines 117-126) can build: a fresh
\* sampled value where graph[i][j] == 1, 0 elsewhere.
EdmondsMatrices(g) ==
    {[row \in 1..Len(g) |-> [j \in 1..Len(g) |->
         IF <<row, j>> \in Edges(g) THEN f[<<row, j>>] ELSE 0]] :
       f \in {h \in [Edges(g) -> SampleValues] :
                  Cardinality({e \in Edges(g) : h[e] # 1}) <= MaxVaried}}

(***************************************************************************)
(* The matching program as a state machine: one call of                    *)
(* hasPerfectMatching(graph), the elimination one pivot column at a time.  *)
(***************************************************************************)

MatchingInit ==
    /\ graph \in MatchingInputs
    /\ A_prime = <<>>
    /\ sampled = <<>>
    /\ det = 1
    /\ k = 1
    /\ matchResult = FALSE
    /\ mpc = "call"
    /\ invArgs = {}
    /\ muls = {}
    /\ sums = {}
    /\ pivots = <<>>
    /\ before = <<>>

\* The program is not running.
MatchingIdle ==
    /\ graph = <<>>
    /\ A_prime = <<>>
    /\ sampled = <<>>
    /\ det = 1
    /\ k = 1
    /\ matchResult = FALSE
    /\ mpc = "idle"
    /\ invArgs = {}
    /\ muls = {}
    /\ sums = {}
    /\ pivots = <<>>
    /\ before = <<>>

\* if (n == 0) return true;   (line 109)
ReturnEmpty ==
    /\ mpc = "call"
    /\ Len(graph) = 0
    /\ matchResult' = TRUE
    /\ mpc' = "returned"
    /\ UNCHANGED <<graph, A_prime, sampled, det, k, invArgs, muls, sums>>
    /\ UNCHANGED <<pivots, before>>
    /\ UNCHANGED notMatching

\* Lines 111-126 and the entry of modularDeterminant (lines 59-60): A' is
\* built from fresh samples, det = 1, and the loop starts at column 0.
BuildEdmonds ==
    /\ mpc = "call"
    /\ Len(graph) > 0
    /\ ~GraphReadOutOfBounds(graph)
    /\ A_prime' \in EdmondsMatrices(graph)
    /\ sampled' = A_prime'
    /\ det' = 1
    /\ k' = 1
    /\ mpc' = "eliminate"
    /\ UNCHANGED <<graph, matchResult, invArgs, muls, sums>>
    /\ UNCHANGED <<pivots, before>>
    /\ UNCHANGED notMatching

\* A row of graph shorter than n: graph[i][j] reads past its end, which is
\* undefined; the call may return either value or end the process.
ReadPastRow ==
    /\ mpc = "call"
    /\ Len(graph) > 0
    /\ GraphReadOutOfBounds(graph)
    /\ \/ mpc' = "returned" /\ matchResult' \in BOOLEAN
       \/ mpc' = "crashed" /\ UNCHANGED matchResult
    /\ UNCHANGED <<graph, A_prime, sampled, det, k, invArgs, muls, sums>>
    /\ UNCHANGED <<pivots, before>>
    /\ UNCHANGED notMatching

\* The iteration with "++k" forgotten: the loop stays on the same column.
EliminateColumnNoAdvance ==
    /\ mpc = "eliminate"
    /\ k <= Len(A_prime)
    /\ LET s == columnStep(A_prime, det, k)
       IN  /\ IF s.singular
              THEN /\ det' = 0
                   /\ mpc' = "test"
                   /\ UNCHANGED <<A_prime, k>>
              ELSE /\ A_prime' = s.A
                   /\ det' = s.det
                   /\ k' = k
                   /\ mpc' = "eliminate"
           /\ invArgs' = invArgs \cup s.invArgs
           /\ muls' = s.muls
           /\ sums' = s.sums
           /\ pivots' = Append(pivots, s.pivot)
           /\ before' = A_prime
    /\ UNCHANGED <<graph, sampled, matchResult>>
    /\ UNCHANGED notMatching

\* One iteration of modularDeterminant's loop over k (lines 62-91); when no
\* pivot is found it returns 0 to hasPerfectMatching at once.
EliminateColumn ==
    /\ mpc = "eliminate"
    /\ k <= Len(A_prime)
    /\ LET s == columnStep(A_prime, det, k)
       IN  /\ IF s.singular
              THEN /\ det' = 0
                   /\ mpc' = "test"
                   /\ UNCHANGED <<A_prime, k>>
              ELSE /\ A_prime' = s.A
                   /\ det' = s.det
                   /\ k' = k + 1
                   /\ mpc' = "eliminate"
           /\ invArgs' = invArgs \cup s.invArgs
           /\ muls' = s.muls
           /\ sums' = s.sums
           /\ pivots' = Append(pivots, s.pivot)
           /\ before' = A_prime
    /\ UNCHANGED <<graph, sampled, matchResult>>
    /\ UNCHANGED notMatching

\* The loop over k is over: the diagonal product and the return (lines 93-98).
DiagonalProduct ==
    /\ mpc = "eliminate"
    /\ k = Len(A_prime) + 1
    /\ det' = finalDeterminant(A_prime, det)
    /\ muls' = diagonalMuls(A_prime, det)
    /\ sums' = {diagonalProduct(A_prime, det, Len(A_prime)) + p}
    /\ mpc' = "test"
    /\ UNCHANGED <<graph, A_prime, sampled, k, matchResult, invArgs>>
    /\ UNCHANGED <<pivots, before>>
    /\ UNCHANGED notMatching

\* return det != 0;   (line 132)
ReturnVerdict ==
    /\ mpc = "test"
    /\ matchResult' = (det # 0)
    /\ mpc' = "returned"
    /\ UNCHANGED <<graph, A_prime, sampled, det, k, invArgs, muls, sums>>
    /\ UNCHANGED <<pivots, before>>
    /\ UNCHANGED notMatching

MatchingNext ==
    \/ ReturnEmpty
    \/ BuildEdmonds
    \/ ReadPastRow
    \/ EliminateColumn
    \/ DiagonalProduct
    \/ ReturnVerdict

(***************************************************************************)
(* power and modInverse as a state machine: one call, the while loop one   *)
(* iteration at a time (perfect_bipartite.cpp, lines 32-50).               *)
(***************************************************************************)

\* Largest exponent of the direct calls of power, and largest of the small
\* bases (some large bases come on top).
MaxExp == 6
MaxBase == 3

BaseValues == (0..MaxBase) \cup {31623, 65536, 500000004, p - 2, p - 1}

PowerInit ==
    /\ argBase \in BaseValues
    /\ \/ ppc = "call" /\ argExp \in 0..MaxExp
       \/ ppc = "inverse" /\ argExp = 0
    /\ pres = 0
    /\ pbase = 0
    /\ pexp = 0
    /\ psteps = 0

\* The program is not running.
PowerIdle ==
    /\ argBase = 0
    /\ argExp = 0
    /\ pres = 0
    /\ pbase = 0
    /\ pexp = 0
    /\ psteps = 0
    /\ ppc = "idle"

\* ll modInverse(ll n) { return power(n, p - 2); }: the call of power.
InverseCall ==
    /\ ppc = "inverse"
    /\ argExp' = p - 2
    /\ ppc' = "call"
    /\ UNCHANGED <<argBase, pres, pbase, pexp, psteps>>
    /\ UNCHANGED notPower

\* ll res = 1; base %= p;   (lines 33-34)
PowerCall ==
    /\ ppc = "call"
    /\ pres' = 1
    /\ pbase' = CRem(argBase)
    /\ pexp' = argExp
    /\ psteps' = 0
    /\ ppc' = "loop"
    /\ UNCHANGED <<argBase, argExp>>
    /\ UNCHANGED notPower

\* while (exp > 0) { ... }   one iteration (lines 35-39)
PowerIterate ==
    /\ ppc = "loop"
    /\ pexp > 0
    /\ LET s == powerIter(pres, pbase, pexp)
       IN  /\ pres' = s.res
           /\ pbase' = s.base
           /\ pexp' = s.exp
    /\ psteps' = psteps + 1
    /\ UNCHANGED <<argBase, argExp, ppc>>
    /\ UNCHANGED notPower

\* The loop condition exp > 0 fails: return res;   (lines 31, 40)
PowerReturn ==
    /\ ppc = "loop"
    /\ ~(pexp > 0)
    /\ ppc' = "returned"
    /\ UNCHANGED <<argBase, argExp, pres, pbase, pexp, psteps>>
    /\ UNCHANGED notPower

PowerNext == InverseCall \/ PowerCall \/ PowerIterate \/ PowerReturn

(***************************************************************************)
(* Part 4.  Pattern matching  (las_vegas.cpp, naive_pattern_macthing.cpp)  *)
(*                                                                         *)
(* A string is a sequence of bytes 0..255.  text[j + i] of the code, with  *)
(* j and i counted from 0, is text[j + i + 1] here.  las_vegas.cpp has its *)
(* own p and power, textually the same as those of Part 1.                 *)
(***************************************************************************)

\* const int d = 256;
d_alphabet == 256

\* The value of a byte read through the type char, converted to long long:
\* where char is signed the bytes 128..255 are the values -128..-1.
charValue(b, sgn) == IF sgn /\ b >= 128 THEN b - 256 ELSE b

\* (t + c * x) % p as C++ evaluates it on long long, for |t|, |x| < 2p and
\* |c| <= 256.  The 64-bit value t + c * x is held as Q * 65536 + R with
\* 0 <= R < 65536, which gives its sign; its residue is computed with the
\* digit-wise product; the C++ remainder has the sign of the value.
RemLinear(t, c, x) ==
    LET low == (t % 65536) + c * (x % 65536)
        Q == (t \div 65536) + (low \div 65536) + c * (x \div 65536)
        res == (CRem(t) + MulModP(c, CRem(x))) % p
    IN  IF Q >= 0 THEN res
        ELSE IF res = 0 THEN 0 ELSE res - p

\* patternHash = (d * patternHash + pattern[i]) % p;   (lines 55, 56)
hashStep(hh, c) == RemLinear(c, d_alphabet, hh)

\* The loop of lines 54-57 on the first len characters of s.
RECURSIVE hashOf(_, _, _)
hashOf(s, len, sgn) ==
    IF len = 0 THEN 0
    ELSE LET hh == hashOf(s, len - 1, sgn)
         IN  IF hh = hh THEN hashStep(hh, charValue(s[len], sgn)) ELSE 0

\* The window's hash moved one place to the right (lines 79-81): out is
\* text[j], in is text[j + m].
rollHash(th, out, in, hh) ==
    LET term1 == RemLinear(th, -out, hh)
        term2 == RemLinear(0, d_alphabet, term1 + p)
    IN  CRem(term2 + in)

\* The character-by-character comparison of the window at j with the
\* pattern (las_vegas.cpp lines 65-71, naive_pattern_macthing.cpp lines
\* 29-37): true iff no position differs.
windowEquals(t, q, j) == \A i \in 1..Len(q) : t[j + i] = q[i]

\* naivePatternMatch's loop from position j on (lines 26-40).
RECURSIVE naiveFrom(_, _, _)
naiveFrom(t, q, j) ==
    IF j > Len(t) - Len(q) THEN <<>>
    ELSE (IF windowEquals(t, q, j) THEN <<j>> ELSE <<>>) \o naiveFrom(t, q, j + 1)

\* std::vector<int> naivePatternMatch(text, pattern)
naivePatternMatch(t, q) == IF Len(q) = 0 THEN <<>> ELSE naiveFrom(t, q, 0)

---------------------------------------------------------------------------
(* The inputs of karpRabinLasVegas.                                        *)

MaxTextLen == 3
MaxPatLen == 2

\* 'a', 'b', and a byte above 127 (as in any UTF-8 encoded non-ASCII text).
Alphabet == {97, 98, 195}

StringsUpTo(n) == UNION {[1..len -> Alphabet] : len \in 0..n}

\* Every text and pattern over the alphabet, up to the bounds; the empty
\* pattern and patterns longer than the text are among them.
SmallInputs ==
    {[text |-> t, pattern |-> q] : t \in StringsUpTo(MaxTextLen),
                                   q \in StringsUpTo(MaxPatLen)}

\* main's two examples (lines 90-91, 107-108).
MainText1 == <<97, 98, 97, 99, 97, 97, 98, 97, 99, 99,
               97, 98, 97, 99, 97, 98, 97, 97, 98, 98>>
MainPattern1 == <<97, 98, 97, 99, 97, 98>>
MainText2 == <<65, 65, 66, 66, 65, 65, 67, 65>>
MainPattern2 == <<66, 66, 65, 65>>

\* Two different 4-byte strings with the same hash: their hashes differ by
\* 60 * 256^3 - 101 * 256^2 - 54 * 256 + 7 = p.  All bytes are below 128.
CollideX == <<60, 0, 0, 7>>
CollideY == <<0, 101, 54, 0>>

ExampleInputs ==
    {[text |-> MainText1, pattern |-> MainPattern1],
     [text |-> MainText2, pattern |-> MainPattern2],
     [text |-> CollideX \o CollideY, pattern |-> CollideY],
     [text |-> CollideY \o CollideX \o CollideY, pattern |-> CollideX]}

KarpRabinInputs == SmallInputs \cup ExampleInputs

---------------------------------------------------------------------------
(* karpRabinLasVegas as a state machine.                                   *)

KarpRabinInit ==
    /\ \E in \in KarpRabinInputs : text = in.text /\ pattern = in.pattern
    /\ charSigned \in BOOLEAN
    /\ patternHash = 0
    /\ textHash = 0
    /\ hpow = 0
    /\ shift = 0
    /\ matches = <<>>
    /\ spurious = 0
    /\ kpc = "call"

\* The program is not running.
KarpRabinIdle ==
    /\ text = <<>>
    /\ pattern = <<>>
    /\ charSigned = FALSE
    /\ patternHash = 0
    /\ textHash = 0
    /\ hpow = 0
    /\ shift = 0
    /\ matches = <<>>
    /\ spurious = 0
    /\ kpc = "idle"

\* if (m == 0 || m > n) return matches;   (line 47)
KarpRabinReturnEmpty ==
    /\ kpc = "call"
    /\ Len(pattern) = 0 \/ Len(pattern) > Len(text)
    /\ kpc' = "returned"
    /\ UNCHANGED <<text, pattern, charSigned, patternHash, textHash, hpow,
                   shift, matches, spurious>>
    /\ UNCHANGED notKarpRabin

\* h = power(d, m - 1) and the hashes of the pattern and of the first
\* window (lines 49-57).
KarpRabinPrepare ==
    /\ kpc = "call"
    /\ ~(Len(pattern) = 0 \/ Len(pattern) > Len(text))
    /\ hpow' = power(d_alphabet, Len(pattern) - 1)
    /\ patternHash' = hashOf(pattern, Len(pattern), charSigned)
    /\ textHash' = hashOf(text, Len(pattern), charSigned)
    /\ shift' = 0
    /\ kpc' = "slide"
    /\ UNCHANGED <<text, pattern, charSigned, matches, spurious>>
    /\ UNCHANGED notKarpRabin

\* One iteration of the slide loop (lines 60-83): compare the hashes, verify
\* a hit character by character, record a verified match, roll the hash.
KarpRabinSlide ==
    /\ kpc = "slide"
    /\ shift <= Len(text) - Len(pattern)
    /\ LET hit == patternHash = textHash
           match == hit /\ windowEquals(text, pattern, shift)
       IN  /\ matches' = IF match THEN Append(matches, shift) ELSE matches
           /\ spurious' = IF hit /\ ~match THEN spurious + 1 ELSE spurious
    /\ textHash' = IF shift < Len(text) - Len(pattern)
                   THEN rollHash(textHash,
                                 charValue(text[shift + 1], charSigned),
                                 charValue(text[shift + Len(pattern) + 1], charSigned),
                                 hpow)
                   ELSE textHash
    /\ shift' = shift + 1
    /\ UNCHANGED <<text, pattern, charSigned, patternHash, hpow, kpc>>
    /\ UNCHANGED notKarpRabin

\* j > n - m: return matches;   (line 84)
KarpRabinReturn ==
    /\ kpc = "slide"
    /\ shift > Len(text) - Len(pattern)
    /\ kpc' = "returned"
    /\ UNCHANGED <<text, pattern, charSigned, patternHash, textHash, hpow,
                   shift, matches, spurious>>
    /\ UNCHANGED notKarpRabin

KarpRabinNext ==
    KarpRabinReturnEmpty \/ KarpRabinPrepare \/ KarpRabinSlide \/ KarpRabinReturn

(***************************************************************************)
(* Part 5.  Directed s-t connectivity by random walks  (STCON.cpp)         *)
(*                                                                         *)
(* Vertices keep the code's numbering 0 .. n-1: adj is a function on       *)
(* 0 .. n-1 and adj[u] a sequence, so adj[u][i] of the code, with i        *)
(* counted from 0, is adj[u][i + 1] here.                                  *)
(***************************************************************************)

\* int n = adj.size();
vertexCount(g) == Cardinality(DOMAIN g)

RECURSIVE IntPow(_, _)
IntPow(b, e) == IF e = 0 THEN 1 ELSE b * IntPow(b, e - 1)

\* The least k >= from with 2^k >= x.
RECURSIVE LeastPowerOfTwo(_, _)
LeastPowerOfTwo(x, from) ==
    IF IntPow(2, from) >= x THEN from ELSE LeastPowerOfTwo(x, from + 1)

\* static_cast<int>(std::ceil(n * std::log2(n)))  (line 48): the least k
\* with 2^k >= n^n; 0, 2, 5, 8, 12 for n = 1 .. 5.
quitCoinFlipsOf(n) == LeastPowerOfTwo(IntPow(n, n), 0)

\* The walk loop (lines 55-71) under the choices most favourable to it:
\* true iff some sequence of neighbour choices makes the walk, standing on
\* v when the counter is st, reach "return true".
RECURSIVE walkCanFind(_, _, _, _, _)
walkCanFind(g, v, t, st, limit) ==
    /\ st < limit
    /\ \/ v = t
       \/ \E i \in 1..Len(g[v]) : walkCanFind(g, g[v][i], t, st + 1, limit)

\* solveSTCON has a sequence of random choices on which it returns true:
\* every walk starts anew from s, so it has one iff one walk has.
canReturnTrue(g, s, t) ==
    /\ vertexCount(g) # 0
    /\ walkCanFind(g, s, t, 0, vertexCount(g) - 1)

---------------------------------------------------------------------------
(* The inputs of solveSTCON.                                               *)

MaxV == 3
MaxArcs == 3

RECURSIVE SortedSeq(_)
SortedSeq(S) ==
    IF S = {} THEN <<>>
    ELSE LET x == CHOOSE y \in S : \A z \in S : y <= z
         IN  <<x>> \o SortedSeq(S \ {x})

\* The graph on 0 .. n-1 with the arcs E, neighbours listed in increasing
\* order.
GraphOf(n, E) ==
    [u \in 0..(n - 1) |-> SortedSeq({v \in 0..(n - 1) : <<u, v>> \in E})]

ArcSets(n) ==
    {E \in SUBSET ((0..(n - 1)) \X (0..(n - 1))) : Cardinality(E) <= MaxArcs}

\* Every graph on n vertices with at most MaxArcs arcs.
SmallGraphs(n) == {GraphOf(n, E) : E \in ArcSets(n)}

\* main's two graphs (lines 97-108, 122-127).
adj1 == GraphOf(5, {<<0, 1>>, <<0, 2>>, <<1, 3>>, <<2, 3>>, <<3, 4>>})
adj2 == GraphOf(5, {<<0, 1>>, <<1, 0>>, <<3, 2>>})

\* The empty graph, and main's two calls (lines 108-113, 127-129).
ExampleGraphs ==
    {[adj |-> <<>>, s |-> 0, t |-> 0],
     [adj |-> adj1, s |-> 0, t |-> 4],
     [adj |-> adj2, s |-> 0, t |-> 2]}

---------------------------------------------------------------------------
(* solveSTCON as a state machine.                                          *)

STCONInit ==
    /\ \/ \E n \in 1..MaxV : \E g \in SmallGraphs(n) :
              \E a \in 0..(n - 1) : \E b \in 0..(n - 1) :
                  adj = g /\ src = a /\ tgt = b
       \/ \E in \in ExampleGraphs : adj = in.adj /\ src = in.s /\ tgt = in.t
    /\ walkLimit = 0
    /\ quitCoinFlips = 0
    /\ current_v = 0
    /\ step = 0
    /\ flips = 0
    /\ stconResult = FALSE
    /\ spc = "call"

\* The program is not running.
STCONIdle ==
    /\ adj = <<>>
    /\ src = 0
    /\ tgt = 0
    /\ walkLimit = 0
    /\ quitCoinFlips = 0
    /\ current_v = 0
    /\ step = 0
    /\ flips = 0
    /\ stconResult = FALSE
    /\ spc = "idle"

\* if (n == 0) return false;   (line 36)
STCONReturnEmpty ==
    /\ spc = "call"
    /\ vertexCount(adj) = 0
    /\ stconResult' = FALSE
    /\ spc' = "returned"
    /\ UNCHANGED <<adj, src, tgt, walkLimit, quitCoinFlips, current_v, step, flips>>
    /\ UNCHANGED notSTCON

\* walkLimit = n - 1; quitCoinFlips = ceil(n * log2(n));   (lines 45, 48)
STCONSetup ==
    /\ spc = "call"
    /\ vertexCount(adj) # 0
    /\ walkLimit' = vertexCount(adj) - 1
    /\ quitCoinFlips' = quitCoinFlipsOf(vertexCount(adj))
    /\ spc' = "round"
    /\ UNCHANGED <<adj, src, tgt, current_v, step, flips, stconResult>>
    /\ UNCHANGED notSTCON

\* while (true) { int current_v = s; for (int step = 0; ...   (lines 51-55)
WalkBegin ==
    /\ spc = "round"
    /\ current_v' = src
    /\ step' = 0
    /\ spc' = "walk"
    /\ UNCHANGED <<adj, src, tgt, walkLimit, quitCoinFlips, flips, stconResult>>
    /\ UNCHANGED notSTCON

\* if (current_v == t) return true;   (lines 57-59)
WalkFound ==
    /\ spc = "walk"
    /\ step < walkLimit
    /\ current_v = tgt
    /\ stconResult' = TRUE
    /\ spc' = "returned"
    /\ UNCHANGED <<adj, src, tgt, walkLimit, quitCoinFlips, current_v, step, flips>>
    /\ UNCHANGED notSTCON

\* if (adj[current_v].empty()) break;   (lines 62-64)
WalkDeadEnd ==
    /\ spc = "walk"
    /\ step < walkLimit
    /\ current_v # tgt
    /\ Len(adj[current_v]) = 0
    /\ flips' = 0
    /\ spc' = "quit"
    /\ UNCHANGED <<adj, src, tgt, walkLimit, quitCoinFlips, current_v, step,
                   stconResult>>
    /\ UNCHANGED notSTCON

\* current_v = adj[current_v][neighbor_index]; ++step   (lines 67-70)
WalkStep ==
    /\ spc = "walk"
    /\ step < walkLimit
    /\ current_v # tgt
    /\ Len(adj[current_v]) # 0
    /\ \E neighbor_index \in 0..(Len(adj[current_v]) - 1) :
           current_v' = adj[current_v][neighbor_index + 1]
    /\ step' = step + 1
    /\ UNCHANGED <<adj, src, tgt, walkLimit, quitCoinFlips, flips, stconResult, spc>>
    /\ UNCHANGED notSTCON

\* step == walkLimit: the for loop ends, the walk "finished without finding
\* t" (lines 55, 73-76).
WalkEnd ==
    /\ spc = "walk"
    /\ step >= walkLimit
    /\ flips' = 0
    /\ spc' = "quit"
    /\ UNCHANGED <<adj, src, tgt, walkLimit, quitCoinFlips, current_v, step,
                   stconResult>>
    /\ UNCHANGED notSTCON

\* coin_dist(gen) == 1: heads, the next coin   (lines 77-78)
QuitHeads ==
    /\ spc = "quit"
    /\ flips < quitCoinFlips
    /\ flips' = flips + 1
    /\ UNCHANGED <<adj, src, tgt, walkLimit, quitCoinFlips, current_v, step,
                   stconResult, spc>>
    /\ UNCHANGED notSTCON

\* coin_dist(gen) == 0: tails, all_heads = false; break; and the while loop
\* repeats   (lines 78-81, 89)
QuitTails ==
    /\ spc = "quit"
    /\ flips < quitCoinFlips
    /\ spc' = "round"
    /\ UNCHANGED <<adj, src, tgt, walkLimit, quitCoinFlips, current_v, step, flips,
                   stconResult>>
    /\ UNCHANGED notSTCON

\* if (all_heads) return false;   (lines 84-87)
QuitAllHeads ==
    /\ spc = "quit"
    /\ flips >= quitCoinFlips
    /\ stconResult' = FALSE
    /\ spc' = "returned"
    /\ UNCHANGED <<adj, src, tgt, walkLimit, quitCoinFlips, current_v, step, flips>>
    /\ UNCHANGED notSTCON

STCONNext ==
    \/ STCONReturnEmpty \/ STCONSetup \/ WalkBegin
    \/ WalkFound \/ WalkDeadEnd \/ WalkStep \/ WalkEnd
    \/ QuitHeads \/ QuitTails \/ QuitAllHeads

(***************************************************************************)
(* Part 6.  Randomized 2-SAT  (2SAT.cpp)                                   *)
(*                                                                         *)
(* A clause is a pair <<lit1, lit2>> of nonzero integers: the literal v    *)
(* is variable v, the literal -v its negation.  Clause i of the code is    *)
(* clause i + 1 here, and "unsatIndex == -1" is "unsatIndex = 0".          *)
(***************************************************************************)

\* The truth value of a literal (lines 38-40, 43-45):
\*   (lit > 0) ? assignment[lit - 1] : !assignment[std::abs(lit) - 1]
literalValue(lit, a) == IF lit > 0 THEN a[lit] ELSE ~a[Abs(lit)]

\* bool isClauseSatisfied(clause, assignment)
isClauseSatisfied(clause, a) ==
    literalValue(clause[1], a) \/ literalValue(clause[2], a)

\* The search that never looks at the last clause.
findUnsatisfiedClauseSkipLast(cs, a) ==
    IF \E i \in 1..(Len(cs) - 1) : ~isClauseSatisfied(cs[i], a)
    THEN CHOOSE i \in 1..(Len(cs) - 1) :
            /\ ~isClauseSatisfied(cs[i], a)
            /\ \A i2 \in 1..(i - 1) : isClauseSatisfied(cs[i2], a)
    ELSE 0

\* int findUnsatisfiedClause(clauses, assignment): the first unsatisfied
\* clause, 0 if all are satisfied.
findUnsatisfiedClause(cs, a) ==
    IF \E i \in 1..Len(cs) : ~isClauseSatisfied(cs[i], a)
    THEN CHOOSE i \in 1..Len(cs) :
            /\ ~isClauseSatisfied(cs[i], a)
            /\ \A i2 \in 1..(i - 1) : isClauseSatisfied(cs[i2], a)
    ELSE 0

\* assignment[varIndex] = !assignment[varIndex] with
\* varIndex = std::abs(litToFlip) - 1   (lines 105-106)
flipVariable(a, litToFlip) ==
    [a EXCEPT ![Abs(litToFlip)] = ~a[Abs(litToFlip)]]

---------------------------------------------------------------------------
(* The inputs of solve2SAT.                                                *)

MaxVars == 2
MaxClauses == 2

Literals(n) == {lit \in (-n)..n : lit # 0}

\* The clauses over the variables 1 .. n whose first literal's variable is
\* not the larger one.
ClausesOver(n) ==
    {c \in Literals(n) \X Literals(n) : Abs(c[1]) <= Abs(c[2])}

FormulasOver(n) == UNION {[1..len -> ClausesOver(n)] : len \in 0..MaxClauses}

\* main's two formulas (lines 118-119, 139-140).
clauses1 == <<(<<1, 2>>), (<<-1, 3>>), (<<1, -3>>)>>
clauses2 == <<(<<1, 1>>), (<<-1, -1>>)>>

TwoSATInputs ==
    {[clauses |-> f, n |-> n] :
        <<f, n>> \in UNION {FormulasOver(n) \X {n} : n \in 0..MaxVars}}
    \cup {[clauses |-> clauses1, n |-> 3], [clauses |-> clauses2, n |-> 1]}

---------------------------------------------------------------------------
(* solve2SAT as a state machine.                                           *)

TwoSATInit ==
    /\ \E in \in TwoSATInputs : clauses = in.clauses /\ nvars = in.n
    /\ assignment = <<>>
    /\ timeout = 0
    /\ kstep = 0
    /\ satFound = FALSE
    /\ satAssignment = <<>>
    /\ tpc = "call"

\* The program is not running.
TwoSATIdle ==
    /\ clauses = <<>>
    /\ nvars = 0
    /\ assignment = <<>>
    /\ timeout = 0
    /\ kstep = 0
    /\ satFound = FALSE
    /\ satAssignment = <<>>
    /\ tpc = "idle"

\* The random initial assignment and the timeout 2 * n * n (lines 80-89).
RandomAssignment ==
    /\ tpc = "call"
    /\ assignment' \in [1..nvars -> BOOLEAN]
    /\ timeout' = 2 * nvars * nvars
    /\ kstep' = 0
    /\ tpc' = "loop"
    /\ UNCHANGED <<clauses, nvars, satFound, satAssignment>>
    /\ UNCHANGED not2SAT

\* unsatIndex == -1: return {true, assignment};   (lines 91-96)
ReturnSolution ==
    /\ tpc = "loop"
    /\ kstep < timeout
    /\ findUnsatisfiedClause(clauses, assignment) = 0
    /\ satFound' = TRUE
    /\ satAssignment' = assignment
    /\ tpc' = "returned"
    /\ UNCHANGED <<clauses, nvars, assignment, timeout, kstep>>
    /\ UNCHANGED not2SAT

\* Pick the first unsatisfied clause, flip the variable of one of its two
\* literals, ++k   (lines 91, 99-106).
FlipLiteral ==
    /\ tpc = "loop"
    /\ kstep < timeout
    /\ LET unsatIndex == findUnsatisfiedClause(clauses, assignment)
       IN  /\ unsatIndex # 0
           /\ \E coin \in {0, 1} :
                 LET litToFlip == IF coin = 0 THEN clauses[unsatIndex][1]
                                              ELSE clauses[unsatIndex][2]
                 IN  assignment' = flipVariable(assignment, litToFlip)
    /\ kstep' = kstep + 1
    /\ UNCHANGED <<clauses, nvars, timeout, satFound, satAssignment, tpc>>
    /\ UNCHANGED not2SAT

\* k == timeout: return {false, {}};   (lines 89, 110)
ReturnTimeout ==
    /\ tpc = "loop"
    /\ kstep >= timeout
    /\ satFound' = FALSE
    /\ satAssignment' = <<>>
    /\ tpc' = "returned"
    /\ UNCHANGED <<clauses, nvars, assignment, timeout, kstep>>
    /\ UNCHANGED not2SAT

TwoSATNext == RandomAssignment \/ ReturnSolution \/ FlipLiteral \/ ReturnTimeout

(***************************************************************************)
(* Specifications: each program on its own.                                *)
(***************************************************************************)

InitFreivalds == FreivaldsInit /\ MatchingIdle /\ PowerIdle /\ KarpRabinIdle
    /\ STCONIdle /\ TwoSATIdle
SpecFreivalds == InitFreivalds /\ [][FreivaldsNext]_vars

InitMatching == FreivaldsIdle /\ MatchingInit /\ PowerIdle /\ KarpRabinIdle
    /\ STCONIdle /\ TwoSATIdle
SpecMatching == InitMatching /\ [][MatchingNext]_vars

InitPower == FreivaldsIdle /\ MatchingIdle /\ PowerInit /\ KarpRabinIdle
    /\ STCONIdle /\ TwoSATIdle
SpecPower == InitPower /\ [][PowerNext]_vars

InitKarpRabin == FreivaldsIdle /\ MatchingIdle /\ PowerIdle /\ KarpRabinInit
    /\ STCONIdle /\ TwoSATIdle
SpecKarpRabin == InitKarpRabin /\ [][KarpRabinNext]_vars

InitSTCON == FreivaldsIdle /\ MatchingIdle /\ PowerIdle /\ KarpRabinIdle
    /\ STCONInit /\ TwoSATIdle
SpecSTCON == InitSTCON /\ [][STCONNext]_vars

Init2SAT == FreivaldsIdle /\ MatchingIdle /\ PowerIdle /\ KarpRabinIdle
    /\ STCONIdle /\ TwoSATInit
Spec2SAT == Init2SAT /\ [][TwoSATNext]_vars

(***************************************************************************)
(* Properties of the Freivalds program  (checked under SpecFreivalds)      *)
(***************************************************************************)

SquareOfSize(M, n) == Len(M) = n /\ \A row \in 1..n : Len(M[row]) = n

\* A, B and C are all n x n for one common n (n = 0 included).
CommonSquare(X, Y, Z) ==
    SquareOfSize(X, Len(X)) /\ SquareOfSize(Y, Len(X)) /\ SquareOfSize(Z, Len(X))

\* C = A*B exactly, as integers.
ExactProduct(X, Y, Z) ==
    CommonSquare(X, Y, Z) /\ ProductFits(X, Y) /\ MatMul(X, Y) = Z

\* A*B # C as integers.  When the exact product does not fit an int it is
\* decided only for 1 x 1 matrices, where a product beyond the int range
\* differs from every int c.
ExactlyDiffers(X, Y, Z) ==
    /\ CommonSquare(X, Y, Z)
    /\ IF ProductFits(X, Y) THEN MatMul(X, Y) # Z ELSE Len(X) = 1

\* No vector r makes one of the three matrix-vector products overflow.
NeverOverflows(X, Y, Z) ==
    \A rv \in [1..Len(X) -> {0, 1}] : ~Overflows(X, Y, Z, rv)

\* The vectors r with which a call can return true.
AcceptingVectors(X, Y, Z) ==
    {rv \in [1..Len(X) -> {0, 1}] : Returned(TRUE) \in Outcomes(X, Y, Z, rv)}

RECURSIVE Pow2(_)
Pow2(n) == IF n = 0 THEN 1 ELSE 2 * Pow2(n - 1)

\* The latest call was made on the matrices now in A, B, C: some call was
\* made, and main is not between its two single calls with C_incorrect
\* already in place.
CallAnswersC == calls > 0 /\ ~(fpc = "single" /\ pendingC = <<>>)

\* The same while no trial of the loop has returned.
SingleCallAnswersC == CallAnswersC /\ trials = <<>>

\* What the caller has in hand after the latest call.
LastCall ==
    IF calls = 0 THEN "none"
    ELSE IF fpc = "crashed" THEN "crash"
    ELSE IF result THEN "true" ELSE "false"

\* C1 as stated: for all n x n matrices with C = A*B exactly and no int
\* overflow, freivaldsVerify returns true whatever r is: every call made
\* returned true, and (looked at after the single calls) so would a call with
\* any other r.
C1_NoFalseNegative_AllN ==
    (CallAnswersC /\ ExactProduct(A, B, C)) =>
        /\ ~Overflows(A, B, C, r) => LastCall = "true"
        /\ SingleCallAnswersC =>
              \A rv \in [1..Len(A) -> {0, 1}] :
                 ~Overflows(A, B, C, rv) => freivaldsVerify(A, B, C, rv)

\* C1 amended: the same for n >= 1; the 0 x 0 matrices, for which C = A*B
\* holds trivially, are rejected by the guard and the call returns false.
C1_NoFalseNegative ==
    (CallAnswersC /\ ExactProduct(A, B, C)) =>
        /\ Len(A) >= 1 =>
              /\ ~Overflows(A, B, C, r) => LastCall = "true"
              /\ SingleCallAnswersC =>
                    \A rv \in [1..Len(A) -> {0, 1}] :
                       ~Overflows(A, B, C, rv) => freivaldsVerify(A, B, C, rv)
        /\ Len(A) = 0 => LastCall = "false"

\* C1 witness: main's A, B and exact product C, r = (1,1,1), accepted.
C1_Witness ==
    /\ A = MainA /\ B = MainB /\ C = C_correct
    /\ CallAnswersC /\ r = <<1, 1, 1>> /\ LastCall = "true"

\* C2 as stated (looked at after the single calls): whenever A*B # C, at most
\* half of the 2^n vectors r make freivaldsVerify return true, and main's
\* perturbed C is rejected by some r.
C2_HalfBound_AllInputs ==
    SingleCallAnswersC =>
        /\ ExactlyDiffers(A, B, C) =>
              2 * Cardinality(AcceptingVectors(A, B, C)) <= Pow2(Len(A))
        /\ (A = MainA /\ B = MainB /\ C = C_incorrect) =>
              \E rv \in [1..3 -> {0, 1}] : ~freivaldsVerify(A, B, C, rv)

\* C2 amended: the bound holds when no int overflow occurs in A(Br) and Cr
\* (with overflow, as for A = B = [[65536]], C = [[0]], every r can be
\* accepted); the call made returned true exactly for an accepting r.
C2_HalfBound ==
    SingleCallAnswersC =>
        /\ (ExactlyDiffers(A, B, C) /\ NeverOverflows(A, B, C)) =>
              /\ 2 * Cardinality(AcceptingVectors(A, B, C)) <= Pow2(Len(A))
              /\ LastCall = "true" <=> r \in AcceptingVectors(A, B, C)
        /\ (A = MainA /\ B = MainB /\ C = C_incorrect) =>
              \E rv \in [1..3 -> {0, 1}] : ~freivaldsVerify(A, B, C, rv)

\* C2 witness: a single call on main's perturbed C returned false.
C2_Witness ==
    /\ A = MainA /\ B = MainB /\ C = C_incorrect
    /\ SingleCallAnswersC /\ LastCall = "false" /\ r[3] = 1

AllTrue(s) == \A j \in 1..Len(s) : s[j]

\* C5: the K-trial loop ends with true only after K trials that all returned
\* true; it ends with false at the first trial that returned false, and no
\* trial is run after a trial that returned false.
C5_AmplifyAllOrFirstFalse ==
    /\ \A j \in 1..(Len(trials) - 1) : trials[j]
    /\ Len(trials) <= K
    /\ fpc = "loop" => (overallResult /\ AllTrue(trials) /\ iter = Len(trials))
    /\ (fpc = "done" /\ overallResult) => (Len(trials) = K /\ AllTrue(trials))
    /\ (fpc = "done" /\ ~overallResult) =>
          (Len(trials) >= 1 /\ ~trials[Len(trials)])

\* C5 witness: the loop stopped with false at its third trial.
C5_Witness ==
    fpc = "done" /\ ~overallResult /\ Len(trials) = 3 /\ calls = 5

\* C9 as stated: when A, B, C are not all n x n for one common n, the call
\* ends in a DimensionMismatch condition the caller can tell from both
\* verdicts.
C9_DimensionMismatchReported ==
    (CallAnswersC /\ ~CommonSquare(A, B, C)) => LastCall = "DimensionMismatch"

(***************************************************************************)
(* Properties of the matching program.                                     *)
(***************************************************************************)

\* A perfect matching of the bipartite graph: a bijection of the rows onto
\* the columns along edges.
HasPerfectMatching(g) ==
    \/ Len(g) = 0
    \/ \E s \in Permutations(1..Len(g)) :
          \A i \in 1..Len(g) : g[i][s[i]] = 1

\* The representative of x mod p nearest to 0 (p - 1 is -1).
Centre(x) == IF x > p \div 2 THEN x - p ELSE x

Inversions(s, n) ==
    Cardinality({ij \in (1..n) \X (1..n) : ij[1] < ij[2] /\ s[ij[1]] > s[ij[2]]})

Sign(s, n) == IF Inversions(s, n) % 2 = 0 THEN 1 ELSE -1

RECURSIVE TermProduct(_, _, _)
TermProduct(M, s, i) ==
    IF i = 0 THEN 1 ELSE TermProduct(M, s, i - 1) * Centre(M[i][s[i]])

RECURSIVE SumOver(_, _, _)
SumOver(M, n, S) ==
    IF S = {} THEN 0
    ELSE LET s == CHOOSE t \in S : TRUE
         IN  Sign(s, n) * TermProduct(M, s, n) + SumOver(M, n, S \ {s})

\* The integer determinant by the Leibniz formula, reduced into [0, p-1].
\* It is taken over the centred representatives, which changes the integer
\* by a multiple of p only.
DetModP(M) ==
    IF Len(M) = 0 THEN 1
    ELSE SumOver(M, Len(M), Permutations(1..Len(M))) % p

IsComplete(g) == IsSquare(g) /\ g = Complete(Len(g))

\* C3: whenever hasPerfectMatching returns true for an n x n adjacency
\* matrix, the graph has a perfect matching; so a graph without one, such
\* as graph2, gets determinant 0 and false for every choice of the samples.
C3_TrueOnlyWithMatching ==
    (IsSquare(graph) /\ ~HasPerfectMatching(graph)) =>
        /\ mpc = "test" => det = 0
        /\ mpc = "returned" => ~matchResult

\* C3 witness: graph2 was rejected with -1 = p - 1 among the samples.
C3_Witness ==
    /\ graph = graph2
    /\ mpc = "returned"
    /\ ~matchResult
    /\ sampled[1][2] = p - 1
    /\ sampled[3][3] = 2

\* C4: modularDeterminant(A) is the integer determinant of A reduced into
\* [0, p-1], both run one pivot column at a time and as a whole.
C4_DeterminantIsLeibniz ==
    mpc = "test" =>
        /\ det = DetModP(sampled)
        /\ modularDeterminant(sampled) = DetModP(sampled)
        /\ det \in 0..(p - 1)

\* C4 witness: graph1's matrix, which needs a row exchange at column 1, got
\* a determinant other than 0 and 1.
C4_Witness ==
    /\ graph = graph1
    /\ mpc = "test"
    /\ det \notin {0, 1}
    /\ sampled[1][1] = 2

\* C7 as stated: on K_n hasPerfectMatching returns true for every choice of
\* the sampled values.
C7_CompleteAlwaysTrue ==
    (IsComplete(graph) /\ mpc = "returned") => matchResult

\* C7 amended: on K_n hasPerfectMatching returns true exactly for the
\* choices whose matrix is nonsingular mod p: always for n <= 1, not always
\* for n >= 2 (equal samples in two rows give false).
C7_CompleteTrueIffNonsingular ==
    (IsComplete(graph) /\ mpc = "returned") =>
        /\ matchResult <=> DetModP(sampled) # 0
        /\ Len(graph) <= 1 => matchResult

\* C7 witness: K_2 accepted with samples that make the matrix nonsingular.
C7_Witness ==
    /\ graph = Complete(2)
    /\ mpc = "returned"
    /\ matchResult
    /\ sampled = <<<<1, 2>>, <<p - 1, 1>>>>

\* C10 as stated: a non-square adjacency matrix ends the call in a
\* DimensionMismatch before an entry is sampled or a determinant computed.
C10_NonSquareSurfaced ==
    ~IsSquare(graph) =>
        /\ mpc \in {"call", "DimensionMismatch"}
        /\ sampled = <<>>

(***************************************************************************)
(* Properties of modularDeterminant's arithmetic.                          *)
(***************************************************************************)

Field == 0..(p - 1)

\* C11: modularDeterminant never calls modInverse with an argument congruent
\* to 0 mod p; a column without a nonzero pivot makes it return 0 before any
\* inverse of that column is taken.
C11_NoInverseOfZero ==
    /\ \A a \in invArgs : a % p # 0
    /\ (mpc = "test" /\ k <= Len(A_prime)) =>
          /\ det = 0
          /\ \A row \in k..Len(A_prime) : A_prime[row][k] = 0
          /\ Cardinality(invArgs) <= k - 1

\* C11 witness: both inverses of a 3 x 3 elimination were taken, one of 2.
C11_Witness ==
    /\ mpc = "test"
    /\ Len(A_prime) = 3
    /\ Cardinality(invArgs) = 2
    /\ 2 \in invArgs

\* C12: after every step of modularDeterminant every matrix entry, every
\* factor and term (the results of the multiplications) and the running
\* determinant lie in [0, p-1], and so does the value returned.
C12_FieldClosure ==
    /\ \A row \in 1..Len(A_prime) : \A j \in 1..Len(A_prime) :
          A_prime[row][j] \in Field
    /\ \A m \in muls : m.res \in Field
    /\ det \in Field

\* C12 witness: an elimination step whose factor was the inverse of 2 left
\* an entry near p in the matrix.
C12_Witness ==
    /\ mpc = "eliminate"
    /\ \E m \in muls : m.res = 500000004
    /\ \E row \in 1..Len(A_prime) : \E j \in 1..Len(A_prime) :
          A_prime[row][j] > 500000004

(***************************************************************************)
(* Properties of power and modInverse.                                     *)
(***************************************************************************)

\* a * b mod p for a, b in [0, p-1] by doubling and adding, which shares
\* nothing with the digit arithmetic of MulAbs.
RECURSIVE MulRef(_, _)
MulRef(a, b) ==
    IF b = 0 THEN 0
    ELSE (((2 * MulRef(a, b \div 2)) % p) + (b % 2) * a) % p

\* base^e mod p by e multiplications.
RECURSIVE NaivePow(_, _)
NaivePow(b, e) ==
    IF e = 0 THEN 1 % p
    ELSE LET x == NaivePow(b, e - 1)
         IN  IF x = x THEN MulRef(x, b) ELSE 0

\* The number of binary digits of e: the number of iterations of the loop.
RECURSIVE BitLen(_)
BitLen(e) == IF e = 0 THEN 0 ELSE 1 + BitLen(e \div 2)

\* C13: for base in [0, p-1] and exp >= 0, power(base, exp) ends after as
\* many iterations as exp has binary digits and returns base^exp mod p, a
\* value in [0, p-1] (1 for exp = 0); res * base^exp stays base0^exp0 mod p
\* all along the loop.
C13_PowerIsExponentiation ==
    (ppc \in {"loop", "returned"} /\ argBase \in Field) =>
        /\ pres \in Field /\ pbase \in Field
        /\ psteps + BitLen(pexp) = BitLen(argExp)
        /\ argExp <= MaxExp =>
              MulRef(pres, NaivePow(pbase, pexp)) = NaivePow(argBase, argExp)
        /\ ppc = "returned" =>
              /\ pexp = 0
              /\ power(argBase, argExp) = pres
              /\ argExp = 0 => pres = 1

\* C13 witness: (p-1)^5 = p - 1 came back after three iterations.
C13_Witness ==
    /\ ppc = "returned"
    /\ argBase = p - 1
    /\ argExp = 5
    /\ psteps = 3
    /\ pres = p - 1

\* C14: for a in [1, p-1], modInverse(a) = power(a, p-2) is the inverse of
\* a: (a * modInverse(a)) mod p = 1.
C14_InverseIsInverse ==
    (ppc = "returned" /\ argExp = p - 2 /\ argBase \in 1..(p - 1)) =>
        /\ MulRef(argBase, pres) = 1
        /\ modInverse(argBase) = pres
        /\ MulModP(argBase, modInverse(argBase)) = 1

\* C14 witness: the inverse of 2 came back as (p + 1) / 2.
C14_Witness ==
    /\ ppc = "returned"
    /\ argExp = p - 2
    /\ argBase = 2
    /\ pres = 500000004
    /\ psteps = 30

(***************************************************************************)
(* Properties of the randomness source.                                    *)
(***************************************************************************)

\* C15 as stated: the source is not reseeded in the middle of a sequence of
\* calls (one generator serves all the calls of a run), and no call is made
\* to draw the values of the call before it.
C15_NoReseedMidSequence ==
    /\ reseeds <= 1
    /\ ~sameSeed

(***************************************************************************)
(* Properties of the randomized Edmonds matrix.                            *)
(***************************************************************************)

\* C16: the matrix hasPerfectMatching builds is n x n with n = graph.size(),
\* has an entry in [1, p-1] wherever adjacency[i][j] = 1 and exactly 0
\* wherever adjacency[i][j] = 0; the elimination starts from that matrix.
C16_EdmondsEntries ==
    (mpc \in {"eliminate", "test", "returned"} /\ Len(graph) > 0
        /\ ~GraphReadOutOfBounds(graph)) =>
        /\ Len(sampled) = Len(graph)
        /\ \A row \in 1..Len(graph) :
              /\ Len(sampled[row]) = Len(graph)
              /\ \A j \in 1..Len(graph) :
                    /\ graph[row][j] = 1 => sampled[row][j] \in 1..(p - 1)
                    /\ graph[row][j] = 0 => sampled[row][j] = 0
        /\ (mpc = "eliminate" /\ k = 1) => A_prime = sampled

\* C16 witness: graph1's matrix was built with three different values on
\* its edges, each edge with its own sample.
C16_Witness ==
    /\ graph = graph1
    /\ mpc = "eliminate"
    /\ k = 1
    /\ A_prime = <<<<2, p - 1, 0>>, <<0, 0, 1>>, <<0, 1, 1>>>>

(***************************************************************************)
(* Overflow safety of the modular arithmetic.                              *)
(***************************************************************************)

\* Both operands of every multiplication of power's loop, from res, base and
\* exp on, lie in [0, p-1].
RECURSIVE PowerOperandsInField(_, _, _)
PowerOperandsInField(res, base, exp) ==
    IF exp = 0 THEN TRUE
    ELSE /\ res \in Field
         /\ base \in Field
         /\ LET s == powerIter(res, base, exp)
            IN  PowerOperandsInField(s.res, s.base, s.exp)

\* C17: every multiplication of modularDeterminant, and of the calls of
\* power it makes through modInverse, has both operands in [0, p-1], so with
\* p < 2^31 every product is below 2^62; every value "% p" is applied to
\* (A[i][j] - term + p, p - det, det + p) lies in [0, 2p).
C17_OverflowSafe ==
    /\ p <= Int32Max
    /\ \A m \in muls : m.a \in Field /\ m.b \in Field
    /\ \A x \in sums : x \in 0..(2 * p - 1)
    /\ mpc = "test" =>
          \A a \in invArgs : PowerOperandsInField(1, CRem(a), p - 2)

\* C17 witness: a diagonal product with both operands above 2, after an
\* inverse was taken and a term larger than the entry was subtracted.
C17_Witness ==
    /\ mpc = "test"
    /\ invArgs # {}
    /\ \E m \in muls : m.a > 2 /\ m.b > 2
    /\ \E x \in sums : x > p


(***************************************************************************)
(* Las Vegas Karp-Rabin against the naive matcher.                         *)
(***************************************************************************)

\* C18: for every text and every non-empty pattern karpRabinLasVegas
\* returns exactly the list naivePatternMatch returns: all true occurrences,
\* in increasing order, and nothing else, whatever the hashes do.
C18_LasVegasEqualsNaive ==
    (kpc = "returned" /\ Len(pattern) > 0)
        => matches = naivePatternMatch(text, pattern)

\* The occurrences naivePatternMatch reports below position j.
naiveBelow(t, q, j) == SelectSeq(naivePatternMatch(t, q), LAMBDA x : x < j)

\* What the verification step guarantees on every build: the matches
\* recorded so far are true occurrences, in increasing order.
LasVegasReportsOnlyOccurrences ==
    kpc \in {"slide", "returned"} =>
        /\ \A i \in 1..Len(matches) :
              /\ matches[i] \in 0..(Len(text) - Len(pattern))
              /\ windowEquals(text, pattern, matches[i])
        /\ \A i \in 1..(Len(matches) - 1) : matches[i] < matches[i + 1]

\* No character of the two strings is read as a negative value.
NoNegativeChar ==
    \A i \in 1..Len(text) + Len(pattern) :
        charValue((text \o pattern)[i], charSigned) >= 0

\* Without negative characters the hashes stay in [0, p-1], the rolled hash
\* is the hash of the window, and the two functions agree at every step.
LasVegasAgreesWithoutNegativeChars ==
    (NoNegativeChar /\ kpc \in {"slide", "returned"}) =>
        /\ patternHash \in 0..(p - 1)
        /\ textHash \in 0..(p - 1)
        /\ matches = naiveBelow(text, pattern, shift)
        /\ kpc = "returned" => matches = naivePatternMatch(text, pattern)

\* A hash collision happened and the verification rejected it.
CollisionRejected == kpc = "returned" /\ spurious > 0

\* The build reads a byte above 127 as negative and an occurrence is missed.
OccurrenceMissed ==
    /\ kpc = "returned"
    /\ charSigned
    /\ Len(matches) < Len(naivePatternMatch(text, pattern))


(***************************************************************************)
(* solveSTCON.                                                             *)
(***************************************************************************)

\* The vertices reachable from the set S by at most len arcs.
RECURSIVE ReachWithin(_, _, _)
ReachWithin(g, S, len) ==
    IF len = 0 THEN S
    ELSE LET R == ReachWithin(g, S, len - 1)
         IN  R \cup {g[u][i] : <<u, i>> \in {<<u, i>> \in R \X (1..vertexCount(g)) :
                                               i <= Len(g[u])}}

\* There is a path from s to t of at most len arcs.
PathWithin(g, s, t, len) == t \in ReachWithin(g, {s}, len)

\* There is a path from s to t (s = t: the empty path).
PathExists(g, s, t) == vertexCount(g) # 0 /\ PathWithin(g, s, t, vertexCount(g) - 1)

\* C19: whenever a path from s to t exists, solveSTCON has at least one
\* sequence of random choices on which it returns true, also when the
\* shortest path has n-1 arcs and when s = t.
C19_PathCanBeFound ==
    (spc # "idle" /\ PathExists(adj, src, tgt)) => canReturnTrue(adj, src, tgt)

\* What the runs do: true is returned only from a walk standing on t after
\* fewer than n-1 steps, so only when a path of at most n-2 arcs exists;
\* and a walk may stand on t after its last step without returning true.
STCONTrueOnlyWithinShortWalk ==
    (spc = "returned" /\ stconResult) =>
        /\ current_v = tgt
        /\ step < walkLimit
        /\ PathWithin(adj, src, tgt, vertexCount(adj) - 2)
        /\ canReturnTrue(adj, src, tgt)

\* A walk made all its n-1 steps, stands on t, and goes on to the quit
\* coins: t is n-1 arcs away from s and no run returns true.
WalkStandsOnTargetUnnoticed ==
    /\ spc = "quit"
    /\ current_v = tgt
    /\ step = walkLimit
    /\ ~canReturnTrue(adj, src, tgt)
    /\ PathExists(adj, src, tgt)


(***************************************************************************)
(* solve2SAT.                                                              *)
(***************************************************************************)

\* The assignment a (a truth value for each variable 1 .. n) makes some
\* literal of every clause of f true.
Satisfies(a, f) ==
    \A i \in 1..Len(f) :
        \E side \in 1..2 :
            \/ f[i][side] > 0 /\ a[f[i][side]]
            \/ f[i][side] < 0 /\ ~a[-f[i][side]]

Satisfiable(f, n) == \E a \in [1..n -> BOOLEAN] : Satisfies(a, f)

\* C20: solve2SAT returns {true, a} only when a satisfies every clause of
\* the formula; hence for an unsatisfiable formula it returns {false, {}}
\* on every run.
C20_TrueOnlyWithSolution ==
    tpc = "returned" =>
        /\ satFound => /\ Len(satAssignment) = nvars
                       /\ Satisfies(satAssignment, clauses)
        /\ ~Satisfiable(clauses, nvars) => (~satFound /\ satAssignment = <<>>)

\* A run that found a solution after flipping at least one variable.
C20_Witness ==
    /\ tpc = "returned"
    /\ satFound
    /\ kstep > 0
    /\ Len(clauses) >= 2
    /\ Satisfies(satAssignment, clauses)

\* A run on an unsatisfiable formula that used up its timeout.
UnsatisfiableTimedOut ==
    /\ tpc = "returned"
    /\ ~satFound
    /\ kstep = timeout
    /\ kstep > 0
    /\ ~Satisfiable(clauses, nvars)


(***************************************************************************)
(* modularDeterminant: pivots, sign, triangular form, termination.         *)
(***************************************************************************)

\* The rows at or below row c whose entry in column c is not zero.
NonzeroRows(M, c) == {row \in c..Len(M) : M[row][c] # 0}

\* The pivot column the latest iteration worked on.
LatestColumn == Len(pivots)

\* C21: for each pivot column the pivot is the first row at or below the
\* pivot row whose entry in that column is nonzero; if there is none the
\* routine returns 0 at once, with no further swap or elimination.
C21_FirstNonzeroPivot ==
    (mpc \in {"eliminate", "test", "returned"} /\ pivots # <<>>) =>
        LET c == LatestColumn
            rows == NonzeroRows(before, c)
        IN  IF rows = {}
            THEN /\ pivots[c] = Len(before) + 1
                 /\ mpc \in {"test", "returned"}
                 /\ det = 0
                 /\ k = c
                 /\ A_prime = before
                 /\ mpc = "returned" => ~matchResult
            ELSE /\ pivots[c] \in rows
                 /\ \A row \in rows : pivots[c] <= row
                 /\ A_prime[c] = before[pivots[c]]
                 /\ k = c + 1

\* A column with its pivot row's entry zero or with several candidates: the
\* first nonzero row was taken, here out of at least two.
C21_Witness ==
    /\ mpc = "eliminate"
    /\ pivots # <<>>
    /\ Cardinality(NonzeroRows(before, LatestColumn)) >= 2
    /\ pivots[LatestColumn] = LatestColumn
    /\ A_prime # before

\* A column without any nonzero entry at or below the pivot row, found after
\* at least one column was eliminated: 0 is returned at once.
NoPivotReturnsZero ==
    /\ mpc = "returned"
    /\ Len(pivots) >= 2
    /\ NonzeroRows(before, LatestColumn) = {}
    /\ det = 0
    /\ A_prime = before

\* The pivot was found below the pivot row.
PivotBelow ==
    /\ mpc = "eliminate"
    /\ pivots # <<>>
    /\ pivots[LatestColumn] > LatestColumn


\* The number of pivot columns, among those processed, for which rows were
\* exchanged: a pivot was found and it was not the pivot row itself.
Exchanges(ps, n) == Cardinality({c \in 1..Len(ps) : ps[c] # c /\ ps[c] <= n})

\* C22: the running determinant is negated mod p exactly when rows k and
\* pivot are exchanged with pivot # k, so throughout the elimination loop
\* it is 1 after an even number of row exchanges and p-1 after an odd number.
C22_SignTracksExchanges ==
    mpc = "eliminate" =>
        /\ Len(pivots) = k - 1
        /\ det = IF Exchanges(pivots, Len(A_prime)) % 2 = 0 THEN 1 ELSE p - 1
        /\ pivots # <<>> =>
              LET c == LatestColumn
              IN  IF pivots[c] # c
                  THEN /\ A_prime[c] = before[pivots[c]]
                       /\ before[c][c] = 0
                       /\ A_prime[pivots[c]][c] = 0
                  ELSE A_prime[c] = before[c]

\* Two exchanges made: the determinant is back at 1.
C22_Witness ==
    /\ mpc = "eliminate"
    /\ Exchanges(pivots, Len(A_prime)) = 2
    /\ det = 1

\* One exchange made: the determinant is p - 1.
OneExchange ==
    /\ mpc = "eliminate"
    /\ Exchanges(pivots, Len(A_prime)) = 1
    /\ det = p - 1


\* Column c of M is finished: a nonzero pivot on the diagonal, zeros below.
ColumnDone(M, c) ==
    /\ M[c][c] # 0
    /\ \A i \in (c + 1)..Len(M) : M[i][c] = 0

UpperTriangular(M) ==
    \A i \in 1..Len(M) : \A j \in 1..(i - 1) : M[i][j] = 0

\* The elimination loop ran to its end (no early return).
LoopCompleted ==
    /\ mpc \in {"eliminate", "test", "returned"}
    /\ A_prime # <<>>
    /\ Len(pivots) = Len(A_prime)
    /\ pivots[Len(pivots)] <= Len(A_prime)

\* The pivot columns processed with a pivot found (all but an attempt that
\* ended in the early return).
DoneColumns ==
    IF pivots # <<>> /\ pivots[Len(pivots)] > Len(A_prime)
    THEN Len(pivots) - 1
    ELSE Len(pivots)

\* C23: once pivot column c is processed, A[c][c] is nonzero and A[i][c] = 0
\* for every row i below; the rows up to c are not changed by later
\* iterations; and when the loop completes the matrix is upper triangular.
C23_ColumnsStayEliminated ==
    /\ (mpc \in {"eliminate", "test", "returned"} /\ pivots # <<>>) =>
          /\ \A c \in 1..DoneColumns : ColumnDone(A_prime, c)
          /\ \A row \in 1..(LatestColumn - 1) : A_prime[row] = before[row]
    /\ LoopCompleted => UpperTriangular(A_prime)

\* The loop completed on a matrix of at least two rows that had a nonzero
\* entry below the diagonal when it was sampled, and it left a nonzero
\* entry above the diagonal.
C23_Witness ==
    /\ LoopCompleted
    /\ Len(A_prime) >= 2
    /\ ~UpperTriangular(sampled)
    /\ UpperTriangular(A_prime)
    /\ \E i \in 1..Len(A_prime) : \E j \in (i + 1)..Len(A_prime) : A_prime[i][j] # 0


(***************************************************************************)
(* freivaldsVerify and hasPerfectMatching on ragged and on empty inputs.   *)
(***************************************************************************)

\* Some row of M has a length other than n.
HasRowOfOtherLength(M, n) == \E i \in 1..Len(M) : Len(M[i]) # n

\* The latest call returned false from its guard: no vector was drawn and
\* no product was formed.
RejectedByGuard == fpc # "crashed" /\ result = FALSE /\ r = <<>>

\* C24: freivaldsVerify rejects, without computing a verdict from the
\* matrix products, every input in which any row of A, B or C has a length
\* different from n, the number of rows of A: every row is checked, not
\* only row 0.
C24_EveryRowChecked ==
    (CallAnswersC /\ (\/ HasRowOfOtherLength(A, Len(A))
                   \/ HasRowOfOtherLength(B, Len(A))
                   \/ HasRowOfOtherLength(C, Len(A))))
        => RejectedByGuard

\* What the guard does reject: a wrong row count, or a row 0 of the wrong
\* length.
GuardRejectsRowZero ==
    (CallAnswersC /\ InvalidDimensions(A, B, C)) => RejectedByGuard

\* A row other than row 0 is longer than n, no row is shorter, and the call
\* returned a verdict computed from the products.
LongRowAccepted ==
    /\ CallAnswersC
    /\ fpc # "crashed"
    /\ HasRowOfOtherLength(A, Len(A))
    /\ ~ReadsOutOfBounds(A, B, C)
    /\ r # <<>>
    /\ result = TRUE


\* Both CH-7 programs, each run on a degenerate input: the Freivalds program
\* with an empty matrix among A, B, C while hasPerfectMatching gets the empty
\* or a non-square adjacency matrix, or the Freivalds program with a row of
\* A of the wrong length while hasPerfectMatching gets the empty matrix.
InitDegenerate ==
    /\ FreivaldsInit
    /\ MatchingInit
    /\ \/ /\ Len(A) = 0 \/ Len(B) = 0 \/ Len(C) = 0
          /\ Len(graph) = 0 \/ ~IsSquare(graph)
       \/ /\ HasRowOfOtherLength(A, Len(A))
          /\ Len(graph) = 0
    /\ PowerIdle /\ KarpRabinIdle /\ STCONIdle /\ TwoSATIdle
DegenerateNext == FreivaldsNext \/ MatchingNext
SpecDegenerate == InitDegenerate /\ [][DegenerateNext]_vars

\* C25: empty inputs are handled without sampling or arithmetic:
\* hasPerfectMatching on a 0x0 adjacency returns true, freivaldsVerify on
\* 0x0 matrices A, B, C returns false (invalid dimensions).
C25_EmptyInputs ==
    /\ graph = <<>> =>
          /\ mpc \in {"idle", "call", "returned"}
          /\ mpc = "returned" => matchResult = TRUE
          /\ A_prime = <<>> /\ sampled = <<>> /\ pivots = <<>>
          /\ invArgs = {} /\ muls = {} /\ sums = {}
    /\ (A = <<>> /\ B = <<>> /\ C = <<>>) =>
          /\ fpc # "crashed"
          /\ r = <<>>
          /\ reseeds = 0
          /\ calls > 0 => result = FALSE
          /\ \A i \in 1..Len(trials) : trials[i] = FALSE

\* Both calls were made on empty inputs and have returned.
C25_Witness ==
    /\ graph = <<>> /\ mpc = "returned" /\ matchResult = TRUE
    /\ A = <<>> /\ B = <<>> /\ C = <<>>
    /\ calls > 0 /\ result = FALSE /\ fpc # "crashed"


\* modularDeterminant has returned: by the early "return 0" of the latest
\* iteration, or by the diagonal product after n iterations.
ReturnedEarly ==
    /\ pivots # <<>>
    /\ pivots[Len(pivots)] = Len(A_prime) + 1
    /\ det = 0
ReturnedByProduct ==
    /\ Len(pivots) = Len(A_prime)
    /\ k = Len(A_prime) + 1
    /\ pivots[Len(pivots)] <= Len(A_prime)

\* C26: modularDeterminant terminates on every n x n input: the pivot scan
\* of column k advances at most n-k rows (it stops at row n at the latest),
\* the loop makes at most n iterations, each moving on to the next column,
\* it is never stuck before it returns, and it returns by the early
\* "return 0" or by the diagonal product.
C26_DeterminantTerminates ==
    (mpc \in {"eliminate", "test", "returned"} /\ A_prime # <<>>) =>
        /\ Len(pivots) <= Len(A_prime)
        /\ \A c \in 1..Len(pivots) :
              /\ pivots[c] >= c
              /\ pivots[c] - c <= Len(A_prime) + 1 - c
              /\ c < Len(pivots) => pivots[c] <= Len(A_prime)
        /\ mpc = "eliminate" =>
              /\ k = Len(pivots) + 1
              \* the guard of the next iteration or that of the loop's exit
              \* holds: the routine is not stuck
              /\ k <= Len(A_prime) \/ k = Len(A_prime) + 1
        /\ mpc \in {"test", "returned"} => (ReturnedEarly \/ ReturnedByProduct)

\* A call on a matrix of at least two rows that returned after n iterations,
\* one of whose scans had to advance.
C26_Witness ==
    /\ mpc = "returned"
    /\ Len(A_prime) >= 2
    /\ ReturnedByProduct
    /\ \E c \in 1..Len(pivots) : pivots[c] > c

\* A call that returned early from a column after the first.
EarlyReturnReached ==
    /\ mpc = "returned"
    /\ ReturnedEarly
    /\ Len(pivots) >= 2

=============================================================================
